---- MODULE Spec2Model ----
(***************************************************************************)
(* Model of the Arabic medication-reminder bot.                            *)
(*                                                                         *)
(* The telebot program (JSON store, APScheduler jobs, `step` state         *)
(* machine) is the file src/medibot_final_secure.py; the                   *)
(* ConversationHandler program (sqlite, step_stack) is the file            *)
(* src/medibot_final_complete.py.                                          *)
(*                                                                         *)
(* Texts are sequences of code points.  An ASCII code point is the         *)
(* one-character string itself; a non-ASCII code point is written by its   *)
(* name ("alef", "emoji", "tanween", ...), one sequence element per code   *)
(* point, so that len(), startswith(), split(), isdigit() and the          *)
(* per-character sanitize_job_id are computed as Python computes them.     *)
(***************************************************************************)
EXTENDS Integers, Sequences, FiniteSets, TLC

VARIABLES
    data,      \* the in-memory mapping  uid -> user record (a dict)
    disk,      \* data.json: [kind |-> "missing"], [kind |-> "json", doc |-> ..] or [kind |-> "partial"]
    jobs,      \* the scheduler's live jobs (one record per job id)
    clock,     \* int(time.time()*1000), abstracted to a strictly increasing counter
    running,   \* FALSE once start-up died with an uncaught exception
    restarts,  \* number of process starts so far
    last,      \* the update handled by the last step and how the handler ended
    out,       \* the messages the last step sent, in order
    lock,      \* DATA_LOCK: 0 when free, else the thread holding it
    threads,   \* per handler thread: its position inside cmd_start / save_data
    users,          \* the sqlite table users of the ConversationHandler program: tg_id -> row
    user_data,      \* context.user_data of that program: tg_id -> dict
    conversations   \* ConversationHandler.conversations: tg_id -> state (no key = no conversation)

vars == <<data, disk, jobs, clock, running, restarts, last, out, lock, threads,
          users, user_data, conversations>>

-----------------------------------------------------------------------------
(* Python str / int helpers, on sequences of code points                   *)

DigitChars == <<"0", "1", "2", "3", "4", "5", "6", "7", "8", "9">>

IsDigit(c) == \E i \in 1..10 : DigitChars[i] = c

DigitVal(c) == (CHOOSE i \in 1..10 : DigitChars[i] = c) - 1

LatinLetters == {"a", "b", "c", "d", "e", "i", "p", "x", "A", "B", "N"}

\* names of the Arabic letters that occur in the bot's button texts
ArabicLetters ==
    {"alef", "alef_hamza", "alef_hamza_below", "alef_maksura", "ba", "ta",
     "ta_marbuta", "jim", "hha", "kha", "dal", "dhal", "ra", "sin", "sad",
     "dad", "tah", "ain", "fa", "qaf", "lam", "mim", "waw", "ya", "ya_hamza", "hamza",
     "shin"}

\* str.isalnum() of one code point: letters and digits; emoji, the
\* variation selector, tanween, regional indicators, space and
\* punctuation are not alphanumeric
IsAlnum(c) == IsDigit(c) \/ c \in LatinLetters \/ c \in ArabicLetters

\* str.isdigit(): non-empty and every code point a digit
IsDigitStr(s) == Len(s) > 0 /\ \A i \in 1..Len(s) : IsDigit(s[i])

StartsWith(s, p) == Len(s) >= Len(p) /\ SubSeq(s, 1, Len(p)) = p

\* the Python test  p in s  for strings
Contains(s, p) ==
    \E i \in 1..(Len(s) + 1) :
        i + Len(p) - 1 <= Len(s) /\ SubSeq(s, i, i + Len(p) - 1) = p

RECURSIVE LStrip(_)
LStrip(s) == IF s # <<>> /\ s[1] = " " THEN LStrip(Tail(s)) ELSE s

RECURSIVE RStrip(_)
RStrip(s) ==
    IF s # <<>> /\ s[Len(s)] = " " THEN RStrip(SubSeq(s, 1, Len(s) - 1)) ELSE s

\* str.strip()
Strip(s) == RStrip(LStrip(s))

\* str.split(sep) for a one-character separator: always at least one part
RECURSIVE SplitFrom(_, _, _)
SplitFrom(s, sep, cur) ==
    IF s = <<>> THEN <<cur>>
    ELSE IF s[1] = sep THEN <<cur>> \o SplitFrom(Tail(s), sep, <<>>)
    ELSE SplitFrom(Tail(s), sep, Append(cur, s[1]))

Split(s, sep) == SplitFrom(s, sep, <<>>)

\* str.replace(c, ''): drop every occurrence of the character
RECURSIVE RemoveChar(_, _)
RemoveChar(s, c) ==
    IF s = <<>> THEN <<>>
    ELSE IF s[1] = c THEN RemoveChar(Tail(s), c)
    ELSE <<s[1]>> \o RemoveChar(Tail(s), c)

\* the digits of an int() literal after the sign: digits, single
\* underscores allowed between digits
IntBodyOk(b) ==
    /\ Len(b) > 0
    /\ IsDigit(b[1]) /\ IsDigit(b[Len(b)])
    /\ \A i \in 1..Len(b) : IsDigit(b[i]) \/ b[i] = "_"
    /\ \A i \in 1..(Len(b) - 1) : ~(b[i] = "_" /\ b[i + 1] = "_")

IntUnsigned(s) == IF s # <<>> /\ s[1] \in {"+", "-"} THEN Tail(s) ELSE s

\* int(s) succeeds: surrounding whitespace stripped, optional sign
IsInt(s) == IntBodyOk(IntUnsigned(Strip(s)))

RECURSIVE DigitsValue(_, _)
DigitsValue(b, acc) ==
    IF b = <<>> THEN acc
    ELSE IF b[1] = "_" THEN DigitsValue(Tail(b), acc)
    ELSE DigitsValue(Tail(b), 10 * acc + DigitVal(b[1]))

\* the value of int(s), for s with IsInt(s)
IntOf(s) ==
    LET t == Strip(s)
        v == DigitsValue(IntUnsigned(t), 0)
    IN  IF t[1] = "-" THEN 0 - v ELSE v

\* str(n) for n >= 0
RECURSIVE Str(_)
Str(n) ==
    IF n < 10 THEN <<DigitChars[n + 1]>>
    ELSE Str(n \div 10) \o <<DigitChars[(n % 10) + 1]>>

\* f"{n:02d}" for n >= 0
Fmt02d(n) == IF n < 10 THEN <<"0">> \o Str(n) ELSE Str(n)

\* hh, mm = map(int, text.split(":")) does not raise
ParsesHHMM(text) ==
    LET parts == Split(text, ":")
    IN  Len(parts) = 2 /\ IsInt(parts[1]) /\ IsInt(parts[2])

ParsedHH(text) == IntOf(Split(text, ":")[1])

ParsedMM(text) == IntOf(Split(text, ":")[2])

-----------------------------------------------------------------------------
(* Button and keyword texts of the bot, code point by code point           *)

\* "أدويتي"
Btn_MyMeds == <<"alef_hamza", "dal", "waw", "ya", "ta", "ya">>

\* "💳 الباقات"
Btn_Packages == <<"emoji", " ", "alef", "lam", "ba", "alef", "qaf", "alef", "ta">>

\* "🔙 الرجوع إلى القائمة السابقة"
Btn_BackMain ==
    <<"emoji", " ", "alef", "lam", "ra", "jim", "waw", "ain", " ",
      "alef_hamza_below", "lam", "alef_maksura", " ",
      "alef", "lam", "qaf", "alef", "ya_hamza", "mim", "ta_marbuta", " ",
      "alef", "lam", "sin", "alef", "ba", "qaf", "ta_marbuta">>

\* "🔙 رجوع"
Btn_Back == <<"emoji", " ", "ra", "jim", "waw", "ain">>

\* "رجوع"
Txt_Back == <<"ra", "jim", "waw", "ain">>

\* "📋 عرض الأدوية"
Btn_View ==
    <<"emoji", " ", "ain", "ra", "dad", " ",
      "alef", "lam", "alef_hamza", "dal", "waw", "ya", "ta_marbuta">>

\* "➕ إضافة دواء"
Btn_Add ==
    <<"emoji", " ", "alef_hamza_below", "dad", "alef", "fa", "ta_marbuta", " ",
      "dal", "waw", "alef", "hamza">>

\* "✏️ تعديل دواء"  (the pencil is two code points: U+270F, U+FE0F)
Btn_Edit ==
    <<"emoji", "vs16", " ", "ta", "ain", "dal", "ya", "lam", " ",
      "dal", "waw", "alef", "hamza">>

\* "🗑️ حذف دواء"  (the basket is two code points: U+1F5D1, U+FE0F)
Btn_Delete ==
    <<"emoji", "vs16", " ", "hha", "dhal", "fa", " ", "dal", "waw", "alef", "hamza">>

\* "صباحًا"
Period_AM == <<"sad", "ba", "alef", "hha", "tanween", "alef">>

\* "مساءً"
Period_PM == <<"mim", "sin", "alef", "hamza", "tanween">>

\* "الاسم"
Field_Name == <<"alef", "lam", "alef", "sin", "mim">>

\* "الجرعة"
Field_Dose == <<"alef", "lam", "jim", "ra", "ain", "ta_marbuta">>

\* "الأوقات"
Field_Times == <<"alef", "lam", "alef_hamza", "waw", "qaf", "alef", "ta">>

\* "مصر"
Word_Egypt == <<"mim", "sad", "ra">>

\* "سعودي"
Word_Saudi == <<"sin", "ain", "waw", "dal", "ya">>

\* "السعودية"
Word_TheSaudi == <<"alef", "lam", "sin", "ain", "waw", "dal", "ya", "ta_marbuta">>

\* "مصر 🇪🇬"
Btn_Egypt == Word_Egypt \o <<" ", "regional_indicator", "regional_indicator">>

\* "السعودية 🇸🇦"
Btn_SaudiArabia == Word_TheSaudi \o <<" ", "regional_indicator", "regional_indicator">>

\* "أخرى 🌍"
Btn_Other == <<"alef_hamza", "kha", "ra", "alef_maksura", " ", "emoji">>

\* {"تم الدفع", "دفعت", "paid", "تم"}
PaidTexts ==
    { <<"ta", "mim", " ", "alef", "lam", "dal", "fa", "ain">>,
      <<"dal", "fa", "ain", "ta">>,
      <<"p", "a", "i", "d">>,
      <<"ta", "mim">> }

\* the three texts that return to the main control panel from any step
BackTexts == {Btn_BackMain, Btn_Back, Txt_Back}

\* {"1","2","3","4"}
TimesCountTexts == {<<"1">>, <<"2">>, <<"3">>, <<"4">>}

-----------------------------------------------------------------------------
(* Dicts: a Python dict with string keys is a function on its key set      *)

Has(d, k) == k \in DOMAIN d

\* d[k] = v
Put(d, k, v) == [x \in (DOMAIN d) \cup {k} |-> IF x = k THEN v ELSE d[x]]

\* d.pop(k, None)
Pop(d, k) == [x \in (DOMAIN d) \ {k} |-> d[x]]

\* str(m.from_user.id)
Uid(n) == Str(n)

-----------------------------------------------------------------------------
(* Scheduler helpers                                                       *)

SanitizeChar(c) == IF IsAlnum(c) \/ c \in {"_", "-", "."} THEN c ELSE "_"

sanitize_job_id(raw) == [i \in 1..Len(raw) |-> SanitizeChar(raw[i])]

\* f"{user_id}__{med['id']}__{hhmm.replace(':','')}__{idx}", sanitized
JobId(uid, med_id, hhmm, idx) ==
    sanitize_job_id(uid \o <<"_", "_">> \o med_id \o <<"_", "_">>
                    \o RemoveChar(hhmm, ":") \o <<"_", "_">> \o Str(idx))

\* scheduler.remove_job(jid); a missing job raises JobLookupError, swallowed
RemoveJob(js, jid) == {j \in js : j.id # jid}

RECURSIVE RemoveFrom(_, _, _, _)
RemoveFrom(js, uid, med, k) ==
    IF k > Len(med.times) THEN js
    ELSE RemoveFrom(RemoveJob(js, JobId(uid, med.id, med.times[k], k - 1)),
                    uid, med, k + 1)

\* remove_med_jobs without the try/except around remove_job: the first
\* absent job ends the loop
RECURSIVE RemoveUntilAbsent(_, _, _, _)
RemoveUntilAbsent(js, uid, med, k) ==
    IF k > Len(med.times) THEN js
    ELSE IF JobId(uid, med.id, med.times[k], k - 1) \notin {j.id : j \in js} THEN js
    ELSE RemoveUntilAbsent(RemoveJob(js, JobId(uid, med.id, med.times[k], k - 1)),
                           uid, med, k + 1)

remove_med_jobs_unguarded(js, uid, med) == RemoveUntilAbsent(js, uid, med, 1)

remove_med_jobs(js, uid, med) == RemoveFrom(js, uid, med, 1)

\* the cron trigger of add_job accepts hour 0..23 and minute 0..59 and
\* raises ValueError for anything else
CronAccepts(hh, mm) == hh \in 0..23 /\ mm \in 0..59

\* scheduler.add_job(..., id=jid, replace_existing=True)
AddJob(js, jid, hh, mm, uid, med_id) ==
    RemoveJob(js, jid) \cup
        {[id |-> jid, hour |-> hh, minute |-> mm, user |-> IntOf(uid), med_id |-> med_id]}

\* the loop of schedule_med_jobs from entry k on; raised = an exception
\* left the loop (the remaining entries are not visited)
RECURSIVE ScheduleFrom(_, _, _, _)
ScheduleFrom(js, uid, med, k) ==
    IF k > Len(med.times) THEN [jobs |-> js, raised |-> FALSE]
    ELSE LET hhmm == med.times[k]
         IN  IF ~ParsesHHMM(hhmm) THEN ScheduleFrom(js, uid, med, k + 1)
             ELSE IF ~CronAccepts(ParsedHH(hhmm), ParsedMM(hhmm))
                  THEN [jobs |-> js, raised |-> TRUE]
             ELSE ScheduleFrom(
                      AddJob(js, JobId(uid, med.id, hhmm, k - 1),
                             ParsedHH(hhmm), ParsedMM(hhmm), uid, med.id),
                      uid, med, k + 1)

schedule_med_jobs(js, uid, med) ==
    ScheduleFrom(remove_med_jobs(js, uid, med), uid, med, 1)

\* "__" in job.id
IsOurJob(j) == Contains(j.id, <<"_", "_">>)

RECURSIVE ScheduleMeds(_, _, _, _)
ScheduleMeds(js, uid, meds, k) ==
    IF k > Len(meds) THEN [jobs |-> js, raised |-> FALSE]
    ELSE LET r == schedule_med_jobs(js, uid, meds[k])
         IN  IF r.raised THEN r ELSE ScheduleMeds(r.jobs, uid, meds, k + 1)

RECURSIVE ScheduleUsers(_, _, _)
ScheduleUsers(js, d, todo) ==
    IF todo = {} THEN [jobs |-> js, raised |-> FALSE]
    ELSE LET uid == CHOOSE u \in todo : \A v \in todo : IntOf(u) <= IntOf(v)
             r == ScheduleMeds(js, uid, d[uid].medicines, 1)
         IN  IF r.raised THEN r ELSE ScheduleUsers(r.jobs, d, todo \ {uid})

\* reschedule_all(): drop every job whose id holds "__", then schedule every
\* medicine of the store
reschedule_all(js, d) ==
    ScheduleUsers({j \in js : ~IsOurJob(j)}, d, DOMAIN d)

-----------------------------------------------------------------------------
(* The world a handler runs in, and the statements handlers are made of.   *)
(* w = [data, disk, jobs, clock, out, raised]; raised = an exception left  *)
(* the handler, so the statements after it did not run.                    *)

World(d, f, js, c) ==
    [data |-> d, disk |-> f, jobs |-> js, clock |-> c, out |-> <<>>, raised |-> FALSE]

\* a save_data that does not write over a file it cannot read
save_data_if_readable(w) ==
    IF w.disk.kind = "partial" THEN w ELSE [w EXCEPT !.disk = [kind |-> "json", doc |-> w.data]]

\* json.dump then json.load of the mapping gives the mapping back: keys are
\* strings, values are strings, ints, booleans, lists and dicts (None <-> null)
save_data(w) == [w EXCEPT !.disk = [kind |-> "json", doc |-> w.data]]

\* load_data(): the parsed document, {} when the file is missing or unparseable
EmptyDict == [x \in {} |-> 0]

load_data(f) == IF f.kind = "json" THEN f.doc ELSE EmptyDict

\* bot.send_message(uid, ...): the message is named by what it says
Msg(t) == [text |-> t]

Send(w, msg) == [w EXCEPT !.out = Append(@, Msg(msg))]

\* u[k] = v  for  u = data[uid]
SetU(w, uid, k, v) == [w EXCEPT !.data[uid] = Put(@, k, v)]

\* u.pop(k, None)
PopU(w, uid, k) == [w EXCEPT !.data[uid] = Pop(@, k)]

\* u["temp"][k] = v
SetTemp(w, uid, k, v) == [w EXCEPT !.data[uid].temp = Put(@, k, v)]

Raise(w) == [w EXCEPT !.raised = TRUE]

NewUser == [step |-> "None", medicines |-> <<>>, paid |-> FALSE]

ensure_user(w, uid) ==
    IF uid \notin DOMAIN w.data
    THEN save_data([w EXCEPT !.data = Put(@, uid, NewUser)])
    ELSE w

\* next((i for i, m in enumerate(meds) if m[name] == text), None), 1-based; 0 = None
FindByName(meds, text) ==
    IF \E i \in 1..Len(meds) : meds[i].name = text
    THEN CHOOSE i \in 1..Len(meds) :
             meds[i].name = text /\ \A k \in 1..(i - 1) : meds[k].name # text
    ELSE 0

\* next((m for m in meds if m["id"] == mid), None), 1-based; 0 = None
FindById(meds, mid) ==
    IF \E i \in 1..Len(meds) : meds[i].id = mid
    THEN CHOOSE i \in 1..Len(meds) :
             meds[i].id = mid /\ \A k \in 1..(i - 1) : meds[k].id # mid
    ELSE 0

\* a removal that drops every medicine with the name of x
ListRemove_same_name(l, x) == SelectSeq(l, LAMBDA m : m.name # x.name)

\* list.remove(x): drop the first element equal to x
ListRemove(l, x) ==
    LET i == CHOOSE k \in 1..Len(l) : l[k] = x /\ \A n \in 1..(k - 1) : l[n] # x
    IN  SubSeq(l, 1, i - 1) \o SubSeq(l, i + 1, Len(l))

\* the medicine u["edit_med_id"] names, 0 when there is none
EditedMed(u) ==
    IF Has(u, "edit_med_id") THEN FindById(u.medicines, u.edit_med_id) ELSE 0

-----------------------------------------------------------------------------
(* state_machine(m), from its last block to its first: every block either  *)
(* returns or falls through to the block after it.                         *)

\* Fallback: nothing matched
SM_Fallback(w, uid, text) == Send(w, "not_understood")

\* if step == "choose_delete"
SM_ChooseDelete(w, uid, text) ==
    LET u == w.data[uid]
        i == FindByName(u.medicines, text)
    IN  IF u.step # "choose_delete" THEN SM_Fallback(w, uid, text)
        ELSE IF text = Btn_Back
             THEN Send(save_data(SetU(w, uid, "step", "in_mymeds")), "went_back")
        ELSE IF i = 0 THEN Send(w, "medicine_not_found")
        ELSE LET chosen == u.medicines[i]
                 w1 == [w EXCEPT !.jobs = remove_med_jobs(@, uid, chosen)]
                 w2 == SetU(w1, uid, "medicines", ListRemove(u.medicines, chosen))
             IN  SetU(Send(save_data(w2), "medicine_deleted"), uid, "step", "in_mymeds")

\* if text == "🗑️ حذف دواء"
SM_DeleteStart(w, uid, text) ==
    LET u == w.data[uid]
    IN  IF text # Btn_Delete THEN SM_ChooseDelete(w, uid, text)
        ELSE IF u.medicines = <<>> THEN Send(w, "no_medicines_to_delete")
        ELSE Send(save_data(SetU(w, uid, "step", "choose_delete")), "choose_medicine_to_delete")

\* if step == "edit_times"
SM_EditTimes(w, uid, text) ==
    LET u == w.data[uid]
        i == EditedMed(u)
    IN  IF u.step # "edit_times" \/ i = 0 THEN SM_DeleteStart(w, uid, text)
        ELSE LET parts == Split(text, ",")
                 arr == SelectSeq([k \in 1..Len(parts) |-> Strip(parts[k])],
                                  LAMBDA t : t # <<>>)
                 w1 == save_data([w EXCEPT !.data[uid].medicines[i].times = arr])
                 r == schedule_med_jobs(w1.jobs, uid, w1.data[uid].medicines[i])
                 w2 == [w1 EXCEPT !.jobs = r.jobs]
             IN  IF r.raised THEN Raise(w2)
                 ELSE SetU(Send(w2, "times_edited"), uid, "step", "in_mymeds")

\* if step == "edit_dose"
SM_EditDose(w, uid, text) ==
    LET u == w.data[uid]
        i == EditedMed(u)
    IN  IF u.step # "edit_dose" \/ i = 0 THEN SM_EditTimes(w, uid, text)
        ELSE LET w1 == save_data([w EXCEPT !.data[uid].medicines[i].dose = text])
             IN  SetU(Send(w1, "dose_edited"), uid, "step", "in_mymeds")

\* an edit_name that stores the renamed medicine as a new record with an id
\* of its own
SM_EditName_new_record(w, uid, text) ==
    LET u == w.data[uid]
        i == EditedMed(u)
    IN  IF u.step # "edit_name" \/ i = 0 THEN SM_EditDose(w, uid, text)
        ELSE LET w1 == save_data([w EXCEPT !.data[uid].medicines[i] =
                                      [@ EXCEPT !.name = text, !.id = Str(w.clock)]])
             IN  SetU(Send(w1, "name_edited"), uid, "step", "in_mymeds")

\* if step == "edit_name"
SM_EditName(w, uid, text) ==
    LET u == w.data[uid]
        i == EditedMed(u)
    IN  IF u.step # "edit_name" \/ i = 0 THEN SM_EditDose(w, uid, text)
        ELSE LET w1 == save_data([w EXCEPT !.data[uid].medicines[i].name = text])
             IN  SetU(Send(w1, "name_edited"), uid, "step", "in_mymeds")

\* if step == "edit_field"
SM_EditField(w, uid, text) ==
    LET u == w.data[uid]
    IN  IF u.step # "edit_field" THEN SM_EditName(w, uid, text)
        ELSE IF EditedMed(u) = 0
             THEN save_data(SetU(Send(w, "internal_error_no_medicine"), uid, "step", "menu"))
        ELSE IF text = Field_Name
             THEN Send(save_data(SetU(w, uid, "step", "edit_name")), "ask_new_name")
        ELSE IF text = Field_Dose
             THEN Send(save_data(SetU(w, uid, "step", "edit_dose")), "ask_new_dose")
        ELSE IF text = Field_Times
             THEN Send(save_data(SetU(w, uid, "step", "edit_times")), "ask_new_times")
        ELSE IF text = Btn_Back
             THEN Send(save_data(SetU(w, uid, "step", "in_mymeds")), "went_back")
        ELSE SM_EditName(w, uid, text)

\* if step == "choose_edit"
SM_ChooseEdit(w, uid, text) ==
    LET u == w.data[uid]
        i == FindByName(u.medicines, text)
    IN  IF u.step # "choose_edit" THEN SM_EditField(w, uid, text)
        ELSE IF text = Btn_Back
             THEN Send(save_data(SetU(w, uid, "step", "in_mymeds")), "went_back")
        ELSE IF i = 0 THEN Send(w, "choice_not_found")
        ELSE Send(save_data(SetU(SetU(w, uid, "edit_med_id", u.medicines[i].id),
                                 uid, "step", "edit_field")),
                  "ask_field_to_edit")

\* if text == "✏️ تعديل دواء"
SM_EditStart(w, uid, text) ==
    LET u == w.data[uid]
    IN  IF text # Btn_Edit THEN SM_ChooseEdit(w, uid, text)
        ELSE IF u.medicines = <<>> THEN Send(w, "no_medicines_to_edit")
        ELSE Send(save_data(SetU(w, uid, "step", "choose_edit")), "choose_medicine_to_edit")

\* if text == "➕ إضافة دواء"
SM_AddStart(w, uid, text) ==
    IF text # Btn_Add THEN SM_EditStart(w, uid, text)
    ELSE Send(save_data(SetU(w, uid, "step", "med_name")), "ask_medicine_name")

\* if step == "view_meds" or text == "📋 عرض الأدوية"
SM_View(w, uid, text) ==
    LET u == w.data[uid]
    IN  IF ~(u.step = "view_meds" \/ text = Btn_View) THEN SM_AddStart(w, uid, text)
        ELSE IF u.medicines = <<>>
             THEN SetU(Send(w, "no_medicines"), uid, "step", "in_mymeds")
        ELSE save_data(SetU(Send(w, "medicine_list"), uid, "step", "in_mymeds"))

\* the conversion without the midnight rule: 12 in the morning stays 12
To24_noon_kept(hh, text) ==
    IF text = Period_AM THEN hh
    ELSE IF hh < 12 THEN hh + 12 ELSE hh

\* the 12-hour to 24-hour conversion of the med_time_period step
To24(hh, text) ==
    IF text = Period_AM THEN (IF hh = 12 THEN 0 ELSE hh)
    ELSE IF hh < 12 THEN hh + 12 ELSE hh

\* f"{hh:02d}:{mm:02d}"
FmtHHMM(hh, mm) == Fmt02d(hh) \o <<":">> \o Fmt02d(mm)

\* the "finalize med" branch of the med_time_period step
SM_FinalizeMed(w, uid) ==
    LET t == w.data[uid].temp
        med == [id |-> Str(w.clock), name |-> t.name, dose |-> t.dose, times |-> t.times]
        w1 == save_data([w EXCEPT !.data[uid].medicines = Append(@, med),
                                  !.clock = @ + 1])
        r == schedule_med_jobs(w1.jobs, uid, med)
        w2 == [w1 EXCEPT !.jobs = r.jobs]
    IN  IF r.raised THEN Raise(w2)
        ELSE Send(save_data(SetU(PopU(w2, uid, "temp"), uid, "step", "menu")),
                  "medicine_added")

\* if step == "med_time_period"
SM_MedTimePeriod(w, uid, text) ==
    LET u == w.data[uid]
    IN  IF u.step # "med_time_period" THEN SM_View(w, uid, text)
        ELSE IF ~Has(u, "temp") THEN Raise(w)
        ELSE IF ~Has(u.temp, "current_time_candidate") \/ u.temp.current_time_candidate = <<>>
             THEN Send(save_data(SetU(w, uid, "step", "menu")), "error_start_again")
        ELSE IF ~ParsesHHMM(u.temp.current_time_candidate)
             THEN SetU(Send(w, "time_error"), uid, "step", "menu")
        ELSE IF text \notin {Period_AM, Period_PM} THEN Send(w, "reprompt_period")
        ELSE LET hh == To24(ParsedHH(u.temp.current_time_candidate), text)
                 mm == ParsedMM(u.temp.current_time_candidate)
                 hhmm24 == FmtHHMM(hh, mm)
                 times == IF Has(u.temp, "times") THEN u.temp.times ELSE <<>>
                 collected == u.temp.times_collected + 1
                 w1 == SetTemp(SetTemp(w, uid, "times", Append(times, hhmm24)),
                               uid, "times_collected", collected)
                 w2 == [w1 EXCEPT !.data[uid].temp = Pop(@, "current_time_candidate")]
             IN  IF collected < u.temp.times_needed
                 THEN Send(save_data(SetU(w2, uid, "step", "med_time_input")), "time_saved_ask_next")
                 ELSE SM_FinalizeMed(w2, uid)

\* the med_time_input step without the range test on hh and mm
SM_MedTimeInput_unranged(w, uid, text) ==
    LET u == w.data[uid]
    IN  IF u.step # "med_time_input" THEN SM_MedTimePeriod(w, uid, text)
        ELSE IF ~ParsesHHMM(text) THEN Send(w, "reprompt_time")
        ELSE IF ~Has(u, "temp") THEN Raise(w)
        ELSE Send(save_data(SetU(SetTemp(w, uid, "current_time_candidate", text),
                                 uid, "step", "med_time_period")),
                  "ask_period")

\* if step == "med_time_input"
SM_MedTimeInput(w, uid, text) ==
    LET u == w.data[uid]
    IN  IF u.step # "med_time_input" THEN SM_MedTimePeriod(w, uid, text)
        ELSE IF ~(ParsesHHMM(text) /\ ParsedHH(text) \in 0..23 /\ ParsedMM(text) \in 0..59)
             THEN Send(w, "reprompt_time")
        ELSE IF ~Has(u, "temp") THEN Raise(w)
        ELSE Send(save_data(SetU(SetTemp(w, uid, "current_time_candidate", text),
                                 uid, "step", "med_time_period")),
                  "ask_period")

\* a med_times_count step that takes every number
SM_MedTimesCount_any_number(w, uid, text) ==
    LET u == w.data[uid]
    IN  IF u.step # "med_times_count" THEN SM_MedTimeInput(w, uid, text)
        ELSE IF ~IsDigitStr(text) THEN Send(w, "reprompt_times_count")
        ELSE IF ~Has(u, "temp") THEN Raise(w)
        ELSE LET w1 == SetTemp(SetTemp(SetTemp(w, uid, "times_needed", IntOf(text)),
                                       uid, "times_collected", 0),
                               uid, "times", <<>>)
             IN  Send(save_data(SetU(w1, uid, "step", "med_time_input")), "ask_time_1")

\* if step == "med_times_count"
SM_MedTimesCount(w, uid, text) ==
    LET u == w.data[uid]
    IN  IF u.step # "med_times_count" THEN SM_MedTimeInput(w, uid, text)
        ELSE IF text \notin TimesCountTexts THEN Send(w, "reprompt_times_count")
        ELSE IF ~Has(u, "temp") THEN Raise(w)
        ELSE LET w1 == SetTemp(SetTemp(SetTemp(w, uid, "times_needed", IntOf(text)),
                                       uid, "times_collected", 0),
                               uid, "times", <<>>)
             IN  Send(save_data(SetU(w1, uid, "step", "med_time_input")), "ask_time_1")

\* if step == "med_dose"
SM_MedDose(w, uid, text) ==
    LET u == w.data[uid]
    IN  IF u.step # "med_dose" THEN SM_MedTimesCount(w, uid, text)
        ELSE IF ~Has(u, "temp") THEN Raise(w)
        ELSE Send(save_data(SetU(SetTemp(w, uid, "dose", text), uid, "step", "med_times_count")),
                  "ask_times_count")

\* if step == "med_name"
SM_MedName(w, uid, text) ==
    IF w.data[uid].step # "med_name" THEN SM_MedDose(w, uid, text)
    ELSE Send(save_data(SetU(SetU(w, uid, "temp", [name |-> text]), uid, "step", "med_dose")),
              "ask_dose")

\* if step == "in_mymeds"
SM_InMyMeds(w, uid, text) ==
    IF w.data[uid].step # "in_mymeds" THEN SM_MedName(w, uid, text)
    ELSE Send(save_data(SetU(w, uid, "step", "in_mymeds")), "mymeds_panel")

\* if step in (None, "post_signup", "menu")
SM_Menu(w, uid, text) ==
    IF w.data[uid].step \notin {"None", "post_signup", "menu"} THEN SM_InMyMeds(w, uid, text)
    ELSE Send(save_data(SetU(w, uid, "step", "menu")), "main_panel")

\* an awaiting_payment step that marks the record as paid whatever the text
SM_AwaitingPayment_any_text(w, uid, text) ==
    IF w.data[uid].step # "awaiting_payment" THEN SM_Menu(w, uid, text)
    ELSE IF text \in PaidTexts
         THEN Send(save_data(SetU(SetU(w, uid, "paid", TRUE), uid, "step", "menu")),
                   "payment_marked_main_panel")
    ELSE Send(save_data(SetU(w, uid, "paid", TRUE)), "press_payment_link")

\* if step == "awaiting_payment"
SM_AwaitingPayment(w, uid, text) ==
    IF w.data[uid].step # "awaiting_payment" THEN SM_Menu(w, uid, text)
    ELSE IF text \in PaidTexts
         THEN Send(save_data(SetU(SetU(w, uid, "paid", TRUE), uid, "step", "menu")),
                   "payment_marked_main_panel")
    ELSE Send(w, "press_payment_link")

\* the country code the choose_country step stores
CountryOf(text) ==
    IF Contains(text, Word_Egypt) THEN "EG"
    ELSE IF Contains(text, Word_Saudi) \/ Contains(text, Word_TheSaudi) THEN "SA"
    ELSE "DEFAULT"

\* if step == "choose_country"
SM_ChooseCountry(w, uid, text) ==
    IF w.data[uid].step # "choose_country" THEN SM_AwaitingPayment(w, uid, text)
    ELSE Send(save_data(SetU(SetU(w, uid, "country", CountryOf(text)), uid, "step", "post_signup")),
              "payment_buttons")

\* if step == "get_email"
SM_GetEmail(w, uid, text) ==
    IF w.data[uid].step # "get_email" THEN SM_ChooseCountry(w, uid, text)
    ELSE IF ~Contains(text, <<"@">>) \/ ~Contains(text, <<".">>)
         THEN Send(w, "reprompt_email")
    ELSE Send(save_data(SetU(SetU(w, uid, "email", text), uid, "step", "choose_country")),
              "ask_country")

\* if step == "get_age"
SM_GetAge(w, uid, text) ==
    IF w.data[uid].step # "get_age" THEN SM_GetEmail(w, uid, text)
    ELSE IF ~IsDigitStr(text) THEN Send(w, "reprompt_age")
    ELSE Send(save_data(SetU(SetU(w, uid, "age", IntOf(text)), uid, "step", "get_email")),
              "ask_email")

\* the length below which get_phone rejects a phone text
MinPhoneLen == 7

\* if step == "get_phone"
SM_GetPhone(w, uid, text) ==
    IF w.data[uid].step # "get_phone" THEN SM_GetAge(w, uid, text)
    ELSE IF ~StartsWith(text, <<"+">>) \/ Len(text) < MinPhoneLen
         THEN Send(w, "reprompt_phone")
    ELSE Send(save_data(SetU(SetU(w, uid, "phone", text), uid, "step", "get_age")),
              "ask_age")

\* if step == "get_name"
SM_GetName(w, uid, text) ==
    IF w.data[uid].step # "get_name" THEN SM_GetPhone(w, uid, text)
    ELSE Send(save_data(SetU(SetU(w, uid, "name", text), uid, "step", "get_phone")),
              "ask_phone")

\* the three quick buttons tested before the step: "أدويتي", "💳 الباقات"
\* and the back texts
SM_Buttons(w, uid, text) ==
    LET u == w.data[uid]
    IN  IF text = Btn_MyMeds
        THEN (IF ~u.paid
              THEN save_data(SetU(Send(w, "pay_first_payment_buttons"), uid, "step", "awaiting_payment"))
              ELSE Send(save_data(SetU(w, uid, "step", "in_mymeds")), "mymeds_panel"))
        ELSE IF text = Btn_Packages
        THEN save_data(SetU(Send(Send(w, "choose_package"), "payment_buttons"),
                            uid, "step", "awaiting_payment"))
        ELSE IF text \in BackTexts
        THEN Send(save_data(SetU(w, uid, "step", "menu")), "back_to_main_panel")
        ELSE SM_GetName(w, uid, text)

\* state_machine(m): text = (m.text or "").strip(), ensure_user, then the blocks
state_machine(w, uid, raw) == SM_Buttons(ensure_user(w, uid), uid, Strip(raw))

\* a /start that begins again with a new record
cmd_start_wiping(w, uid) ==
    Send(save_data([w EXCEPT !.data = Put(@, uid, Put(NewUser, "step", "get_name"))]),
         "welcome_ask_name")

\* cmd_start(m)
cmd_start(w, uid) ==
    Send(save_data(SetU(ensure_user(w, uid), uid, "step", "get_name")), "welcome_ask_name")

\* callback_handler(call)
callback_handler(w, uid, calldata) ==
    LET w1 == ensure_user(w, uid)
    IN  IF calldata = "paid_confirm"
        THEN Send(save_data(SetU(w1, uid, "paid", TRUE)), "payment_confirmed_main_panel")
        ELSE w1

\* the ways a call of the messaging transport inside send_reminder can end
TransportOutcomes == {"delivered", "send_message_raises", "send_voice_raises"}

\* the calls send_reminder makes to the transport and the exception that
\* leaves it, with voice = generate_azure_tts_audio returned a file (Azure
\* TTS is configured and answered) and transport = how the calls end
ReminderCalls(med, voice, transport) ==
    LET text == [text |-> "reminder", name |-> med.name, dose |-> med.dose]
    IN  IF transport = "send_message_raises" \/ ~voice THEN <<text>>
        ELSE <<text, [text |-> "voice", name |-> med.name, dose |-> med.dose]>>

\* a send_reminder without its outer try/except: an exception of
\* bot.send_message leaves it
send_reminder_uncaught(d, user_id, med_id, voice, transport) ==
    LET uid == Str(user_id)
    IN  IF uid \notin DOMAIN d THEN [out |-> <<>>, raised |-> FALSE]
        ELSE LET i == FindById(d[uid].medicines, med_id)
             IN  IF i = 0 THEN [out |-> <<>>, raised |-> FALSE]
                 ELSE [out |-> ReminderCalls(d[uid].medicines[i], voice, transport),
                       raised |-> transport = "send_message_raises"]

\* a send_reminder that does not look the medicine up again: the reminder
\* is sent for the user's first medicine
send_reminder_unchecked(d, user_id, med_id, voice, transport) ==
    LET uid == Str(user_id)
    IN  IF uid \notin DOMAIN d \/ d[uid].medicines = <<>> THEN [out |-> <<>>, raised |-> FALSE]
        ELSE [out |-> ReminderCalls(d[uid].medicines[1], voice, transport), raised |-> FALSE]

\* send_reminder(user_id, med_id): out = the calls it makes to the transport
\* (one text, then the voice note when there is one), raised = an exception
\* leaves it; every exception is caught by one of its two try/except blocks
send_reminder(d, user_id, med_id, voice, transport) ==
    LET uid == Str(user_id)
    IN  IF uid \notin DOMAIN d THEN [out |-> <<>>, raised |-> FALSE]
        ELSE LET i == FindById(d[uid].medicines, med_id)
             IN  IF i = 0 THEN [out |-> <<>>, raised |-> FALSE]
                 ELSE [out |-> ReminderCalls(d[uid].medicines[i], voice, transport),
                       raised |-> FALSE]

\* a job function that also notes the reminded medicine in the record and
\* saves
run_job_noting(w, j, voice, transport) ==
    LET r == send_reminder(w.data, j.user, j.med_id, voice, transport)
        w1 == [w EXCEPT !.out = r.out, !.raised = r.raised]
    IN  IF r.out = <<>> THEN w1
        ELSE save_data(SetU(w1, Str(j.user), "last_reminded", j.med_id))

\* the scheduler runs the function of job j, partial(send_reminder,
\* int(user_id), med["id"]), on the program's state: send_reminder has no
\* assignment to data, no save_data() and no call of the scheduler
run_job(w, j, voice, transport) ==
    LET r == send_reminder(w.data, j.user, j.med_id, voice, transport)
    IN  [w EXCEPT !.out = r.out, !.raised = r.raised]

-----------------------------------------------------------------------------
(* Bounds of the model and the texts the users send                        *)

\* the Telegram user ids
UserIds == {1, 2}

\* the number of medicines that can be added before the clock stops
MaxAdds == 1

\* the number of reloads (process starts after the first, GET /set_webhook)
\* of a behaviour; the behaviour is followed up to its last reload
MaxReloads == 1

T_N == <<"N">>
T_A == <<"A">>
T_B == <<"B">>
T_d == <<"d">>
T_e == <<"e">>

GlobalButtons == {Btn_MyMeds, Btn_Packages} \cup BackTexts

\* the texts the three blocks before the edit steps catch
EarlyButtons == GlobalButtons \cup {Btn_View, Btn_Add, Btn_Edit}

Buttons == EarlyButtons \cup {Btn_Delete}

PhoneTexts == {<<"+", "2", "0", "1", "2", "3", "4">>, <<"+", "2", "0">>, <<"0", "1", "2", "3", "4", "5", "6">>}

AgeTexts == {<<"3", "0">>, <<"x", "3">>, <<>>}

EmailTexts == {<<"a", "@", "b", ".", "c">>, <<"a", "b">>, <<"a", "@", "b">>}

CountTexts == {<<"0">>, <<"1">>, <<"2">>, <<"5">>}

TimeTexts == {<<"8", ":", "5">>, <<"2", "5", ":", "0", "0">>, <<"1", "0", ":", "7", "5">>, <<"a", "b">>, <<"1", ":", "2", ":", "3">>}

EditTimesTexts == {<<"2", "5", ":", "0", "0">>, <<"a", "b", ",", " ", "2", "1", ":", "1", "5", ",">>}

RegistrationSteps == {"get_name", "get_phone", "get_age", "get_email", "choose_country"}

\* what user 1 may send at each step (before stripping)
StepVocabulary(step) ==
    CASE step = "get_name" -> GlobalButtons \cup {T_N}
      [] step = "get_phone" -> Buttons \cup PhoneTexts \cup {T_N}
      [] step = "get_age" -> Buttons \cup AgeTexts
      [] step = "get_email" -> Buttons \cup EmailTexts
      [] step = "choose_country" -> GlobalButtons \cup {Btn_Egypt, Btn_Other}
      [] step = "awaiting_payment" -> Buttons \cup PaidTexts \cup {T_N}
      [] step \in {"None", "post_signup", "menu", "in_mymeds"} -> Buttons \cup {T_N}
      [] step = "med_name" -> GlobalButtons \cup {T_A}
      [] step = "med_dose" -> GlobalButtons \cup {T_d}
      [] step = "med_times_count" -> Buttons \cup CountTexts \cup {T_N}
      [] step = "med_time_input" -> Buttons \cup TimeTexts
      [] step = "med_time_period" -> Buttons \cup {Period_AM, Period_PM, T_N}
      [] step \in {"choose_edit", "choose_delete"} -> Buttons \cup {T_A, T_B, T_N}
      [] step = "edit_field" -> Buttons \cup {Field_Name, Field_Dose, Field_Times, T_N}
      [] step = "edit_name" -> EarlyButtons \cup {T_B}
      [] step = "edit_dose" -> EarlyButtons \cup {T_e}
      [] step = "edit_times" -> EarlyButtons \cup EditTimesTexts
      [] OTHER -> Buttons

\* a user whose registration is complete does not answer the registration
\* questions a second time: after /start such a user only presses the
\* quick buttons
Vocabulary1(d) ==
    IF Uid(1) \notin DOMAIN d THEN StepVocabulary("None")
    ELSE IF d[Uid(1)].step \in RegistrationSteps /\ Has(d[Uid(1)], "country") THEN GlobalButtons
    ELSE StepVocabulary(d[Uid(1)].step)

\* user 2 only answers the delete prompt
Vocabulary2(d) ==
    IF Uid(2) \in DOMAIN d /\ d[Uid(2)].step = "choose_delete" THEN {T_A, T_N} ELSE {}

Vocabulary(n, d) == IF n = 1 THEN Vocabulary1(d) ELSE Vocabulary2(d)

\* the users that send /start and press inline buttons
Starters == {1}

\* the only inline button with callback data is the payment confirmation; a
\* forged callback carries other data
CallbackData == {"paid_confirm"}

-----------------------------------------------------------------------------
(* The documents data.json may hold when the process starts                *)

Med1 == [id |-> Str(1), name |-> T_A, dose |-> T_d,
         times |-> <<<<"0", "8", ":", "0", "0">>, <<"1", "4", ":", "3", "0">>>>]

\* a second medicine with the name of the first
Med2A == [id |-> Str(2), name |-> T_A, dose |-> T_e, times |-> <<<<"0", "8", ":", "0", "0">>>>]

\* the medicine of user 2: the id and the first time of user 1's first medicine
Med3 == [id |-> Str(1), name |-> T_A, dose |-> T_d, times |-> <<<<"0", "8", ":", "0", "0">>>>]

MedLists == {<<Med1, Med2A>>}

Registered(step, meds) ==
    [step |-> step, medicines |-> meds, paid |-> TRUE, name |-> T_N,
     phone |-> <<"+", "2", "0", "1", "2", "3", "4">>, age |-> 30, email |-> <<"a", "@", "b", ".", "c">>, country |-> "EG"]

\* the records of user 1 a loaded document may hold: from the choose_delete
\* step the buttons lead into every medicine sub-flow
LoadedUser1 == {Registered("choose_delete", meds) : meds \in MedLists}

\* the records of user 2 a loaded document may hold
LoadedUser2 == {Registered("choose_delete", <<Med3>>)}

LoadedDocs == {(Uid(1) :> u1) @@ (Uid(2) :> u2) : u1 \in LoadedUser1, u2 \in LoadedUser2}

\* data.json at process start: absent, not parseable as JSON, or a document
StartFiles ==
    {[kind |-> "missing"], [kind |-> "partial"]} \cup {[kind |-> "json", doc |-> d] : d \in LoadedDocs}

\* medicine ids are milliseconds since the epoch: the clock is past every
\* id of the loaded documents
ClockStart == 1 + Cardinality(UNION {{m.id : m \in {l[i] : i \in 1..Len(l)}} : l \in MedLists})

-----------------------------------------------------------------------------
(* The program as a state machine, one handler per step                    *)

Threads == {1, 2}

\* a handler thread: pc = its position, ret = where it continues after
\* save_data, size = len(data) when json.dump began to iterate, doc = the
\* items json.dump has written so far
IdleThread == [pc |-> "idle", ret |-> "idle", size |-> 0, doc |-> EmptyDict]

StepOf(d, uid) == IF uid \in DOMAIN d THEN d[uid].step ELSE "None"

\* the ConversationHandler program is a program of its own: in the
\* behaviours of the telebot program its state is empty and stays so
NoConversations ==
    /\ users = EmptyDict
    /\ user_data = EmptyDict
    /\ conversations = EmptyDict

\* process start: load_data(), then reschedule_all() on the empty scheduler
Init ==
    /\ \E f \in StartFiles :
        /\ disk = f
        /\ data = load_data(f)
        /\ jobs = reschedule_all({}, load_data(f)).jobs
    /\ clock = ClockStart
    /\ running = TRUE
    /\ restarts = 0
    /\ last = [kind |-> "init", uid |-> <<>>, raised |-> FALSE]
    /\ out = <<>>
    /\ lock = 0
    /\ threads = [t \in Threads |-> IdleThread]
    /\ NoConversations

\* a handler ran from the current state and ended in world w
Handled(w, kind, uid) ==
    /\ data' = w.data
    /\ disk' = w.disk
    /\ jobs' = w.jobs
    /\ clock' = w.clock
    /\ out' = w.out
    /\ last' = [kind |-> kind, uid |-> uid, raised |-> w.raised]
    /\ UNCHANGED <<running, restarts, lock, threads, users, user_data, conversations>>

\* a text message, handled by state_machine
Message(n, raw) ==
    /\ running
    /\ restarts < MaxReloads
    /\ raw \in Vocabulary(n, data)
    /\ \E w \in {state_machine(World(data, disk, jobs, clock), Uid(n), raw)} :
           /\ w.clock <= ClockStart + MaxAdds
           /\ Handled(w, "message", Uid(n))

\* the /start command, handled by cmd_start
Start(n) ==
    /\ running
    /\ restarts < MaxReloads
    /\ \E w \in {cmd_start(World(data, disk, jobs, clock), Uid(n))} :
           Handled(w, "start", Uid(n))

\* an inline button, handled by callback_handler
Callback(n, calldata) ==
    /\ running
    /\ restarts < MaxReloads
    /\ \E w \in {callback_handler(World(data, disk, jobs, clock), Uid(n), calldata)} :
           Handled(w, "callback", Uid(n))

\* the cron trigger of a live job fires: partial(send_reminder, int(user_id), med['id']);
\* the scheduler runs the job function and keeps the job;
\* send_voice is called only with a voice file, and the voice file is made
\* only after send_message returned
Fire(j, voice, transport) ==
    /\ running
    /\ restarts < MaxReloads
    /\ j \in jobs
    /\ transport = "send_voice_raises" => voice
    /\ transport = "send_message_raises" => ~voice
    /\ \E r \in {send_reminder(data, j.user, j.med_id, voice, transport)} :
           /\ out' = r.out
           /\ last' = [kind |-> "fire", uid |-> Str(j.user), raised |-> r.raised,
                       transport |-> transport]
    /\ UNCHANGED <<data, disk, jobs, clock, running, restarts, lock, threads, users, user_data, conversations>>

\* the process is started again: load_data(), reschedule_all() on a new,
\* empty scheduler; an exception out of reschedule_all ends the process
Restart ==
    /\ restarts < MaxReloads
    /\ \E d \in {load_data(disk)} : \E r \in {reschedule_all({}, d)} :
           /\ data' = d
           /\ jobs' = IF r.raised THEN {} ELSE r.jobs
           /\ running' = ~r.raised
           /\ last' = [kind |-> "reload", uid |-> <<>>, raised |-> r.raised]
    /\ restarts' = restarts + 1
    /\ out' = <<>>
    /\ UNCHANGED <<disk, clock, lock, threads, users, user_data, conversations>>

\* GET /set_webhook in webhook mode: load_data(), reschedule_all() in the
\* running process; an exception is caught by the route
SetWebhook ==
    /\ running
    /\ restarts < MaxReloads
    /\ \E d \in {load_data(disk)} : \E r \in {reschedule_all(jobs, d)} :
           /\ data' = d
           /\ jobs' = r.jobs
           /\ last' = [kind |-> "reload", uid |-> <<>>, raised |-> r.raised]
    /\ restarts' = restarts + 1
    /\ out' = <<>>
    /\ UNCHANGED <<disk, clock, running, lock, threads, users, user_data, conversations>>

Next ==
    \/ \E n \in UserIds : \E raw \in Vocabulary(n, data) : Message(n, raw)
    \/ \E n \in Starters : Start(n)
    \/ \E n \in Starters, c \in CallbackData : Callback(n, c)
    \/ \E j \in jobs, voice \in BOOLEAN, transport \in TransportOutcomes : Fire(j, voice, transport)
    \/ Restart
    \/ SetWebhook

Spec == Init /\ [][Next]_vars

-----------------------------------------------------------------------------
(* Properties of the message handlers, the scheduler and the store         *)

\* the job ids the time list of one medicine derives
MedJobIds(uid, med) == {JobId(uid, med.id, med.times[k], k - 1) : k \in 1..Len(med.times)}

\* the job ids the medicines of a store derive
DerivedIds(d) ==
    UNION {UNION {MedJobIds(uid, d[uid].medicines[i]) : i \in 1..Len(d[uid].medicines)} :
               uid \in DOMAIN d}

JobIdsOf(js) == {j.id : j \in js}

\* the time entries of a store, one per (user, medicine, index)
TimeEntries(d) ==
    UNION {UNION {{<<uid, i, k>> : k \in 1..Len(d[uid].medicines[i].times)} :
                      i \in 1..Len(d[uid].medicines)} : uid \in DOMAIN d}

\* the last step was a telegram update whose handler ran to its end
HandlerCompleted == last.kind \in {"message", "start", "callback"} /\ ~last.raised

\* l without its i-th element
Without(l, i) == SubSeq(l, 1, i - 1) \o SubSeq(l, i + 1, Len(l))

\* C1: after every completed handler operation the ids of the live jobs are
\* exactly the ids derived from the medicines of the store, one per (user id,
\* medicine id, time, index), and no job is left for a time that is no
\* longer in a time list.
C1_JobsAreDerived == HandlerCompleted => JobIdsOf(jobs) = DerivedIds(data)

\* C2: a paid user at the medicines panel (after /start, registration and
\* "My medicines") who sends the add button text is at step med_name after
\* the message.
C2_AddEntered ==
    [][\A n \in UserIds :
          (/\ Uid(n) \in DOMAIN data
           /\ data[Uid(n)].paid
           /\ data[Uid(n)].step = "in_mymeds"
           /\ Message(n, Btn_Add))
          => data'[Uid(n)].step = "med_name"]_vars

\* the steps that validate their input, and the rule of each
ValidatedSteps ==
    {"get_phone", "get_age", "get_email", "med_times_count", "med_time_input", "med_time_period"}

FailsValidation(step, text) ==
    CASE step = "get_phone" -> ~StartsWith(text, <<"+">>) \/ Len(text) < MinPhoneLen
      [] step = "get_age" -> ~IsDigitStr(text)
      [] step = "get_email" -> ~Contains(text, <<"@">>) \/ ~Contains(text, <<".">>)
      [] step = "med_times_count" -> text \notin TimesCountTexts
      [] step = "med_time_input" ->
             ~(ParsesHHMM(text) /\ ParsedHH(text) \in 0..23 /\ ParsedMM(text) \in 0..59)
      [] step = "med_time_period" -> text \notin {Period_AM, Period_PM}
      [] OTHER -> FALSE

RePrompt(step) ==
    CASE step = "get_phone" -> "reprompt_phone"
      [] step = "get_age" -> "reprompt_age"
      [] step = "get_email" -> "reprompt_email"
      [] step = "med_times_count" -> "reprompt_times_count"
      [] step = "med_time_input" -> "reprompt_time"
      [] step = "med_time_period" -> "reprompt_period"
      [] OTHER -> "none"

\* user n is at a validated step
AtValidatedStep(n) == Uid(n) \in DOMAIN data /\ data[Uid(n)].step \in ValidatedSteps

\* the text raw fails the rule of the step user n is at
Invalid(n, raw) == FailsValidation(data[Uid(n)].step, Strip(raw))

\* the re-prompt of the step is the only message and the record is as before
RePrompted(n) ==
    /\ out' = <<Msg(RePrompt(data[Uid(n)].step))>>
    /\ data'[Uid(n)] = data[Uid(n)]

\* C3 (as stated): at every validated step every text that fails the step's
\* rule is answered by the re-prompt and leaves the step and every field of
\* the user record unchanged.
C3_InvalidInputReprompts ==
    [][\A n \in UserIds :
          AtValidatedStep(n) =>
              \A raw \in Vocabulary(n, data) :
                  (Invalid(n, raw) /\ Message(n, raw)) => RePrompted(n)]_vars

\* C3 (amended): at every validated step every text that fails the step's
\* rule and is none of the quick-button texts ("My medicines", "Packages",
\* the three back texts) is answered by the re-prompt and leaves the step
\* and every field of the user record unchanged.
C3_InvalidInputRepromptsUnlessButton ==
    [][\A n \in UserIds :
          (last'.kind = "message" /\ last'.uid = Uid(n) /\ AtValidatedStep(n)) =>
              \A raw \in Vocabulary(n, data) \ GlobalButtons :
                  (Invalid(n, raw) /\ Message(n, raw)) => RePrompted(n)]_vars

\* C3 witness: an out-of-range time at med_time_input was answered by the
\* re-prompt, the scratch object still in the record
C3_RepromptedTime ==
    /\ last.kind = "message"
    /\ out = <<Msg("reprompt_time")>>
    /\ data[last.uid].step = "med_time_input"
    /\ Has(data[last.uid], "temp")

\* a step in which the choose_delete step deletes a medicine of user n
Deletes(n) ==
    /\ Uid(n) \in DOMAIN data
    /\ data[Uid(n)].step = "choose_delete"
    /\ last'.kind = "message"
    /\ last'.uid = Uid(n)
    /\ out' = <<Msg("medicine_deleted")>>

\* the medicine the text raw chooses from the list of user n
Chosen(n, raw) == FindByName(data[Uid(n)].medicines, Strip(raw))

\* C4: after the choose_delete step removed a medicine no live job carries
\* the (user id, medicine id) pair of the removed medicine.
C4_DeleteCancelsJobs ==
    [][\A n \in UserIds :
          Deletes(n) =>
              \A raw \in Vocabulary(n, data) :
                  Message(n, raw) =>
                      ~\E j \in jobs' :
                          /\ j.user = n
                          /\ j.med_id = data[Uid(n)].medicines[Chosen(n, raw)].id]_vars

\* C5: the choose_delete step removes exactly the chosen medicine (the first
\* of that name) from the user's list; every other medicine record of this
\* user, every record of every other user and every job of the other
\* medicines are as before, and no job is added.
C5_DeleteFrame ==
    [][\A n \in UserIds :
          Deletes(n) =>
              \A raw \in Vocabulary(n, data) :
                  Message(n, raw) =>
                      LET old == data[Uid(n)].medicines
                          i == Chosen(n, raw)
                      IN  /\ i # 0
                          /\ data'[Uid(n)].medicines = Without(old, i)
                          /\ DOMAIN data' = DOMAIN data
                          /\ \A v \in DOMAIN data \ {Uid(n)} : data'[v] = data[v]
                          /\ jobs' \subseteq jobs
                          /\ \A j \in jobs :
                                 ~(j.user = n /\ j.med_id = old[i].id) => j \in jobs']_vars

\* C5 witness: a medicine was deleted, the user keeps another medicine of
\* the same name with its job, and another user has a medicine with its job
C5_DeletedOneOfTwo ==
    /\ last.kind = "message"
    /\ out = <<Msg("medicine_deleted")>>
    /\ \E n \in UserIds, v \in UserIds :
          /\ n # v
          /\ Uid(n) = last.uid
          /\ Uid(v) \in DOMAIN data
          /\ data[Uid(n)].medicines # <<>>
          /\ \E j \in jobs : j.user = n
          /\ \E j \in jobs : j.user = v

\* C6: after load_data and a reschedule_all that ran to its end the live
\* medicine jobs are as many as the time entries of the store (job ids are
\* pairwise distinct: the scheduler holds one job per id).
C6_ReloadLeavesTJobs ==
    (last.kind = "reload" /\ ~last.raised) =>
        Cardinality({j \in jobs : IsOurJob(j)}) = Cardinality(TimeEntries(data))

\* C9: after every handled message the document on disk is the in-memory
\* data, the step of every user included.
C9_DiskEqualsMemory ==
    (last.kind = "message" /\ ~last.raised) => (disk.kind = "json" /\ disk.doc = data)

\* a zero-padded HH:MM with 0 <= HH < 24 and 0 <= MM < 60
IsHHMM(t) ==
    /\ Len(t) = 5
    /\ t[3] = ":"
    /\ \A i \in {1, 2, 4, 5} : IsDigit(t[i])
    /\ DigitVal(t[1]) * 10 + DigitVal(t[2]) < 24
    /\ DigitVal(t[4]) * 10 + DigitVal(t[5]) < 60

\* C10: every time string of every medicine of the store is a zero-padded
\* HH:MM with 0 <= HH < 24 and 0 <= MM < 60.
C10_TimesAreHHMM ==
    \A uid \in DOMAIN data :
        \A i \in 1..Len(data[uid].medicines) :
            \A k \in 1..Len(data[uid].medicines[i].times) :
                IsHHMM(data[uid].medicines[i].times[k])

-----------------------------------------------------------------------------
(* The scheduler helpers on their own: a store of one user with one        *)
(* medicine, any set of jobs left by earlier calls                         *)

T_0800 == <<"0", "8", ":", "0", "0">>

T_1430 == <<"1", "4", ":", "3", "0">>

T_2115 == <<"2", "1", ":", "1", "5">>

T_2500 == <<"2", "5", ":", "0", "0">>

\* time lists: empty, one, two, the same time twice, an unparseable entry
\* first, an out-of-range entry first
SchedTimes ==
    {<<>>, <<T_0800>>, <<T_0800, T_1430>>, <<T_0800, T_0800>>, <<<<"a", "b">>, T_2115>>,
     <<T_2500, T_0800>>}

SchedMeds == {[id |-> Str(1), name |-> T_A, dose |-> T_d, times |-> ts] : ts \in SchedTimes}

\* jobs earlier calls may have left: a job of the medicine, a stale job of
\* the medicine (a time it no longer has), a job of another medicine, and a
\* job that is not a reminder
PriorJobs ==
    {[id |-> JobId(Uid(1), Str(1), T_0800, 0), hour |-> 8, minute |-> 0, user |-> 1, med_id |-> Str(1)],
     [id |-> JobId(Uid(1), Str(1), T_2115, 0), hour |-> 21, minute |-> 15, user |-> 1, med_id |-> Str(1)],
     [id |-> JobId(Uid(1), Str(2), T_0800, 0), hour |-> 8, minute |-> 0, user |-> 1, med_id |-> Str(2)],
     [id |-> <<"t", "t", "s">>, hour |-> 0, minute |-> 0, user |-> 0, med_id |-> <<>>]}

SchedInit ==
    /\ \E med \in SchedMeds :
          /\ data = (Uid(1) :> Registered("menu", <<med>>))
          /\ disk = [kind |-> "json", doc |-> (Uid(1) :> Registered("menu", <<med>>))]
    /\ jobs \in SUBSET PriorJobs
    /\ clock = ClockStart
    /\ running = TRUE
    /\ restarts = 0
    /\ last = [kind |-> "init", uid |-> <<>>, raised |-> FALSE]
    /\ out = <<>>
    /\ lock = 0
    /\ threads = [t \in Threads |-> IdleThread]
    /\ NoConversations

SchedMed == data[Uid(1)].medicines[1]

\* schedule_med_jobs(uid, med)
SchedSchedule ==
    /\ \E r \in {schedule_med_jobs(jobs, Uid(1), SchedMed)} :
          /\ jobs' = r.jobs
          /\ last' = [kind |-> "schedule", uid |-> Uid(1), raised |-> r.raised]
    /\ UNCHANGED <<data, disk, clock, running, restarts, out, lock, threads, users, user_data, conversations>>

\* remove_med_jobs(uid, med)
SchedRemove ==
    /\ jobs' = remove_med_jobs(jobs, Uid(1), SchedMed)
    /\ last' = [kind |-> IF last.kind = "schedule" THEN "schedule_remove" ELSE "remove",
                uid |-> Uid(1), raised |-> FALSE]
    /\ UNCHANGED <<data, disk, clock, running, restarts, out, lock, threads, users, user_data, conversations>>

\* reschedule_all()
SchedRescheduleAll ==
    /\ \E r \in {reschedule_all(jobs, data)} :
          /\ jobs' = r.jobs
          /\ last' = [kind |-> "reschedule_all", uid |-> <<>>, raised |-> r.raised]
    /\ UNCHANGED <<data, disk, clock, running, restarts, out, lock, threads, users, user_data, conversations>>

SchedNext == SchedSchedule \/ SchedRemove \/ SchedRescheduleAll

SpecSched == SchedInit /\ [][SchedNext]_vars

\* C7: after remove_med_jobs on a medicine (right after schedule_med_jobs on
\* the same medicine, or with some or all of its jobs absent) no live job has
\* an id derived from the medicine, and remove_med_jobs did not raise.
C7_RemoveLeavesNoDerivedJob ==
    last.kind \in {"remove", "schedule_remove"} =>
        /\ JobIdsOf(jobs) \cap MedJobIds(Uid(1), SchedMed) = {}
        /\ ~last.raised

\* C7 witness: remove_med_jobs ran right after schedule_med_jobs on a medicine
\* whose first entry got no job (it does not parse) and whose second did,
\* next to a job of another medicine that is still live
C7_RemovedAfterSchedule ==
    /\ last.kind = "schedule_remove"
    /\ Len(SchedMed.times) = 2
    /\ ~ParsesHHMM(SchedMed.times[1])
    /\ ParsesHHMM(SchedMed.times[2])
    /\ \E j \in jobs : j.med_id = Str(2)

\* an entry of a time list that can have a job: two integer fields, hour
\* 0..23 and minute 0..59
ValidEntry(t) == ParsesHHMM(t) /\ ParsedHH(t) \in 0..23 /\ ParsedMM(t) \in 0..59

\* C16: after schedule_med_jobs on a medicine whose time list holds a bad
\* entry (non-numeric, wrong number of fields, out of range) next to valid
\* entries, no exception has left schedule_med_jobs and every valid entry of
\* the list, before and after the bad one, has a live job.
C16_ValidEntriesScheduled ==
    last.kind = "schedule" =>
        /\ ~last.raised
        /\ \A k \in 1..Len(SchedMed.times) :
               ValidEntry(SchedMed.times[k]) =>
                   JobId(Uid(1), SchedMed.id, SchedMed.times[k], k - 1) \in JobIdsOf(jobs)

-----------------------------------------------------------------------------
(* Handler threads: TeleBot(threaded=True) runs handlers on worker threads; *)
(* each thread below handles /start updates of one user, statement by       *)
(* statement, save_data item by item                                        *)

ThreadsInit ==
    /\ \E f \in {[kind |-> "missing"]} \cup
                 {[kind |-> "json", doc |-> (Uid(1) :> Registered("menu", <<Med1>>))]} :
          /\ disk = f
          /\ data = load_data(f)
          /\ jobs = reschedule_all({}, load_data(f)).jobs
    /\ clock = ClockStart
    /\ running = TRUE
    /\ restarts = 0
    /\ last = [kind |-> "init", uid |-> <<>>, raised |-> FALSE]
    /\ out = <<>>
    /\ lock = 0
    /\ threads = [t \in Threads |-> IdleThread]
    /\ NoConversations

ThreadFrame == UNCHANGED <<jobs, clock, running, restarts, last, out, users, user_data, conversations>>

\* cmd_start(m) is called on thread t
ThreadStart(t) ==
    /\ threads[t].pc = "idle"
    /\ threads' = [threads EXCEPT ![t].pc = "ensure_user"]
    /\ UNCHANGED <<data, disk, lock>>
    /\ ThreadFrame

\* ensure_user(uid): if uid not in data: data[uid] = {...}, then save_data()
ThreadEnsureUser(t) ==
    /\ threads[t].pc = "ensure_user"
    /\ IF Uid(t) \in DOMAIN data
       THEN /\ threads' = [threads EXCEPT ![t].pc = "set_step"]
            /\ UNCHANGED data
       ELSE /\ data' = Put(data, Uid(t), NewUser)
            /\ threads' = [threads EXCEPT ![t].pc = "save_data", ![t].ret = "set_step"]
    /\ UNCHANGED <<disk, lock>>
    /\ ThreadFrame

\* data[uid]["step"] = "get_name", then save_data()
ThreadSetStep(t) ==
    /\ threads[t].pc = "set_step"
    /\ data' = [data EXCEPT ![Uid(t)] = Put(@, "step", "get_name")]
    /\ threads' = [threads EXCEPT ![t].pc = "save_data", ![t].ret = "send_message"]
    /\ UNCHANGED <<disk, lock>>
    /\ ThreadFrame

\* bot.send_message(...), the handler returns
ThreadSend(t) ==
    /\ threads[t].pc = "send_message"
    /\ threads' = [threads EXCEPT ![t] = IdleThread]
    /\ UNCHANGED <<data, disk, lock>>
    /\ ThreadFrame

\* save_data: with DATA_LOCK
SaveAcquire(t) ==
    /\ threads[t].pc = "save_data"
    /\ lock = 0
    /\ lock' = t
    /\ threads' = [threads EXCEPT ![t].pc = "open"]
    /\ UNCHANGED <<data, disk>>
    /\ ThreadFrame

\* save_data: open(DATA_FILE, "w") truncates the file; json.dump begins to
\* iterate over data
SaveOpen(t) ==
    /\ threads[t].pc = "open"
    /\ disk' = [kind |-> "partial"]
    /\ threads' = [threads EXCEPT ![t].pc = "dump", ![t].size = Cardinality(DOMAIN data),
                                  ![t].doc = EmptyDict]
    /\ UNCHANGED <<data, lock>>
    /\ ThreadFrame

\* save_data: json.dump writes the next item of data; the items are written
\* one after the other, each as it is when it is written
SaveDumpItem(t) ==
    /\ threads[t].pc = "dump"
    /\ threads[t].size # 0
    /\ Cardinality(DOMAIN data) = threads[t].size
    /\ \E k \in DOMAIN data \ DOMAIN threads[t].doc :
          threads' = [threads EXCEPT ![t].doc = Put(@, k, data[k])]
    /\ UNCHANGED <<data, disk, lock>>
    /\ ThreadFrame

\* save_data: every item is written (an empty data is written as {} without
\* iterating); the file is closed and the lock released
SaveClose(t) ==
    /\ threads[t].pc = "dump"
    /\ \/ threads[t].size = 0
       \/ /\ Cardinality(DOMAIN data) = threads[t].size
          /\ DOMAIN data = DOMAIN threads[t].doc
    /\ disk' = [kind |-> "json", doc |-> threads[t].doc]
    /\ lock' = 0
    /\ threads' = [threads EXCEPT ![t].pc = threads[t].ret, ![t].doc = EmptyDict, ![t].size = 0]
    /\ UNCHANGED data
    /\ ThreadFrame

\* save_data: data got a key while json.dump iterates over it: RuntimeError
\* (dictionary changed size during iteration) leaves both with blocks, which
\* close the file as far as it is written and release the lock, and is
\* caught by except Exception
SaveFails(t) ==
    /\ threads[t].pc = "dump"
    /\ threads[t].size # 0
    /\ Cardinality(DOMAIN data) # threads[t].size
    /\ lock' = 0
    /\ threads' = [threads EXCEPT ![t].pc = threads[t].ret, ![t].doc = EmptyDict, ![t].size = 0]
    /\ UNCHANGED <<data, disk>>
    /\ ThreadFrame

\* the scheduler's own thread runs a live job between two statements of the
\* handler threads; midsave = a save_data holds DATA_LOCK at that moment
ThreadFire(j, voice, transport) ==
    /\ j \in jobs
    /\ transport = "send_voice_raises" => voice
    /\ transport = "send_message_raises" => ~voice
    /\ \E w \in {run_job(World(data, disk, jobs, clock), j, voice, transport)} :
           /\ data' = w.data
           /\ disk' = w.disk
           /\ jobs' = w.jobs
           /\ clock' = w.clock
           /\ out' = w.out
           /\ last' = [kind |-> "fire", uid |-> Str(j.user), raised |-> w.raised,
                       transport |-> transport, midsave |-> lock # 0]
    /\ UNCHANGED <<running, restarts, lock, threads, users, user_data, conversations>>

ThreadsNext ==
    \/ \E j \in jobs, voice \in BOOLEAN, transport \in TransportOutcomes :
           ThreadFire(j, voice, transport)
    \/ \E t \in Threads :
        \/ ThreadStart(t)
        \/ ThreadEnsureUser(t)
        \/ ThreadSetStep(t)
        \/ ThreadSend(t)
        \/ SaveAcquire(t)
        \/ SaveOpen(t)
        \/ SaveDumpItem(t)
        \/ SaveClose(t)
        \/ SaveFails(t)

SpecThreads == ThreadsInit /\ [][ThreadsNext]_vars

\* C8: whenever no save_data holds DATA_LOCK, data.json is absent or holds a
\* whole JSON document.
C8_FileIsWholeJson == lock = 0 => disk.kind \in {"missing", "json"}

-----------------------------------------------------------------------------
(* The time steps of the add-medicine flow on their own: a user whose       *)
(* record was saved at med_time_input, one or two times to collect          *)

\* candidate times: noon/midnight, a morning hour, an afternoon hour, the
\* corners of the range, unpadded fields, and texts med_time_input rejects
PeriodTimeTexts ==
    {<<"1", "2", ":", "1", "5">>, <<"0", "3", ":", "0", "0">>, <<"1", "4", ":", "0", "0">>,
     <<"0", ":", "0">>, <<"2", "3", ":", "5", "9">>, <<"8", ":", "5">>,
     <<"2", "4", ":", "0", "0">>, <<"a", "b">>}

\* what the user sends at the two time steps
PeriodVocabulary(d) ==
    CASE d[Uid(1)].step = "med_time_input" -> PeriodTimeTexts
      [] d[Uid(1)].step = "med_time_period" -> {Period_AM, Period_PM, T_N, <<>>, Txt_Back, Btn_MyMeds}
      [] OTHER -> {}

\* the record as med_times_count saved it
AtTimeInput(needed) ==
    [step |-> "med_time_input", medicines |-> <<>>, paid |-> TRUE, name |-> T_N,
     phone |-> <<"+", "2", "0", "1", "2", "3", "4">>, age |-> 30, email |-> <<"a", "@", "b", ".", "c">>,
     country |-> "EG",
     temp |-> [name |-> T_A, dose |-> T_d, times_needed |-> needed, times_collected |-> 0,
               times |-> <<>>]]

PeriodInit ==
    /\ \E needed \in {1, 2} :
          /\ data = (Uid(1) :> AtTimeInput(needed))
          /\ disk = [kind |-> "json", doc |-> (Uid(1) :> AtTimeInput(needed))]
    /\ jobs = {}
    /\ clock = ClockStart
    /\ running = TRUE
    /\ restarts = 0
    /\ last = [kind |-> "init", uid |-> <<>>, raised |-> FALSE]
    /\ out = <<>>
    /\ lock = 0
    /\ threads = [t \in Threads |-> IdleThread]
    /\ NoConversations

\* a text message of user 1, handled by state_machine
PeriodMessage(raw) ==
    /\ raw \in PeriodVocabulary(data)
    /\ \E w \in {state_machine(World(data, disk, jobs, clock), Uid(1), raw)} :
           Handled(w, "message", Uid(1))

PeriodNext == \E raw \in PeriodVocabulary(data) : PeriodMessage(raw)

SpecPeriod == PeriodInit /\ [][PeriodNext]_vars

\* HH:MM with both fields written in two digits
PaddedHHMM(h, m) ==
    <<DigitChars[(h \div 10) + 1], DigitChars[(h % 10) + 1], ":",
      DigitChars[(m \div 10) + 1], DigitChars[(m % 10) + 1]>>

\* the times collected so far for the medicine being added
CollectedTimes(u) == IF Has(u, "temp") /\ Has(u.temp, "times") THEN u.temp.times ELSE <<>>

\* the time list the step left: the scratch list while times are missing,
\* the list of the appended medicine once the medicine is complete
TimesAfter(u) ==
    IF Has(u, "temp") THEN u.temp.times ELSE u.medicines[Len(u.medicines)].times

\* the step stored hour h, minute m: one entry more, the zero-padded string
StoredTime(h, m) ==
    /\ last'.raised = FALSE
    /\ TimesAfter(data'[Uid(1)]) = Append(CollectedTimes(data[Uid(1)]), PaddedHHMM(h, m))

\* the step stored nothing and asked again
PeriodRejected ==
    /\ out' = <<Msg("reprompt_period")>>
    /\ data' = data
    /\ jobs' = jobs

AtPeriodStep == data[Uid(1)].step = "med_time_period"

\* the outcome C11 states for the period text raw
PeriodOutcome(raw) ==
    LET hh == ParsedHH(data[Uid(1)].temp.current_time_candidate)
        mm == ParsedMM(data[Uid(1)].temp.current_time_candidate)
    IN  IF Strip(raw) = Period_AM THEN StoredTime(IF hh = 12 THEN 0 ELSE hh, mm)
        ELSE IF Strip(raw) = Period_PM THEN StoredTime(IF hh < 12 THEN hh + 12 ELSE hh, mm)
        ELSE PeriodRejected

\* C11 (as stated): at med_time_period, for every accepted candidate hh:mm,
\* morning stores hour 0 when hh is 12 and hh otherwise, evening stores hh+12
\* when hh < 12 and hh otherwise, zero-padded; every other period text is
\* re-prompted and stores nothing.
C11_PeriodConversion ==
    [][AtPeriodStep =>
          \A raw \in PeriodVocabulary(data) : PeriodMessage(raw) => PeriodOutcome(raw)]_vars

\* C11 (amended): the same, for every period text that is none of the
\* quick-button texts ("My medicines", "Packages", the three back texts).
C11_PeriodConversionUnlessButton ==
    [][AtPeriodStep =>
          \A raw \in PeriodVocabulary(data) \ GlobalButtons :
              PeriodMessage(raw) => PeriodOutcome(raw)]_vars

\* C11 witness: 12:15 in the morning and 03:00 in the evening were stored as
\* 00:15 and 15:00 in the medicine the flow added
C11_StoredMidnightAndAfternoon ==
    /\ last.kind = "message"
    /\ data[Uid(1)].step = "menu"
    /\ Len(data[Uid(1)].medicines) = 1
    /\ data[Uid(1)].medicines[1].times = <<<<"0", "0", ":", "1", "5">>, <<"1", "5", ":", "0", "0">>>>

-----------------------------------------------------------------------------
(* /start, reminders and the store                                         *)

\* C12: for an existing user at any step, /start sets the step to get_name
\* and leaves the medicine list, the paid flag (and every other field of the
\* record), the records of the other users and all live jobs unchanged.
C12_StartKeepsRecord ==
    [][\A n \in Starters :
          (Uid(n) \in DOMAIN data /\ Start(n)) =>
              /\ data' = [data EXCEPT ![Uid(n)] = Put(@, "step", "get_name")]
              /\ data'[Uid(n)].medicines = data[Uid(n)].medicines
              /\ data'[Uid(n)].paid = data[Uid(n)].paid
              /\ jobs' = jobs]_vars

\* C12 witness: /start was handled for a paid user who has medicines, live
\* jobs and a scratch object of an unfinished add-medicine flow
C12_StartedWithMedicines ==
    /\ last.kind = "start"
    /\ data[last.uid].step = "get_name"
    /\ data[last.uid].paid
    /\ data[last.uid].medicines # <<>>
    /\ Has(data[last.uid], "temp")
    /\ \E j \in jobs : Str(j.user) = last.uid

\* the medicine a job is for is in the store, under the job's user
JobHasMedicine(j) ==
    /\ Str(j.user) \in DOMAIN data
    /\ \E i \in 1..Len(data[Str(j.user)].medicines) : data[Str(j.user)].medicines[i].id = j.med_id

\* the text reminders among the calls of the last step
TextReminders(calls) == {i \in 1..Len(calls) : calls[i].text = "reminder"}

\* C14: when a job fires whose user record or medicine is no longer in the
\* store, send_reminder sends nothing at all; when both exist it sends
\* exactly one text reminder, the one of that medicine.
C14_ReminderOnlyForStoredMedicine ==
    [][last'.kind = "fire" =>
        \A j \in {x \in jobs : Str(x.user) = last'.uid}, voice \in BOOLEAN :
          Fire(j, voice, last'.transport) =>
              IF JobHasMedicine(j)
              THEN /\ Cardinality(TextReminders(out')) = 1
                   /\ out'[1].text = "reminder"
                   /\ \E i \in 1..Len(data[Str(j.user)].medicines) :
                          /\ data[Str(j.user)].medicines[i].id = j.med_id
                          /\ data[Str(j.user)].medicines[i].name = out'[1].name
                          /\ data[Str(j.user)].medicines[i].dose = out'[1].dose
              ELSE out' = <<>>]_vars

\* C14 witness: a job fired and nothing was sent, the user of the job still
\* in the store with another medicine: a stale job of a deleted medicine
C14_StaleJobFiredSilently ==
    /\ last.kind = "fire"
    /\ out = <<>>
    /\ last.uid \in DOMAIN data
    /\ data[last.uid].medicines # <<>>

\* C15: when send_message or send_voice raises inside send_reminder, no
\* exception leaves send_reminder, the process runs on and every job, the
\* fired one included, is still scheduled.
C15_TransportFailureIsContained ==
    [][(last'.kind = "fire" /\ last'.transport # "delivered") =>
        \A j \in {x \in jobs : Str(x.user) = last'.uid}, voice \in BOOLEAN :
          Fire(j, voice, last'.transport) =>
              /\ ~last'.raised
              /\ running'
              /\ jobs' = jobs
              /\ j \in jobs'
              /\ data' = data]_vars

\* C15 witness: send_message raised in a reminder of a stored medicine while
\* two or more jobs are scheduled; all of them are still live
C15_SendMessageRaised ==
    /\ last.kind = "fire"
    /\ last.transport = "send_message_raises"
    /\ ~last.raised
    /\ out # <<>>
    /\ running
    /\ Cardinality(jobs) >= 2

\* the steps of the add-medicine flow at which the scratch object exists
ScratchSteps == {"med_dose", "med_times_count", "med_time_input", "med_time_period"}

\* C17: in every reachable state a user whose step is outside med_dose,
\* med_times_count, med_time_input, med_time_period has no temp key.
C17_TempOnlyInAddFlow ==
    \A uid \in DOMAIN data :
        data[uid].step \notin ScratchSteps => ~Has(data[uid], "temp")

\* C18: load_data leaves the in-memory mapping empty, without raising, when
\* data.json does not exist and when it cannot be parsed (at process start
\* and at every reload); after the load of an unparseable file the next
\* handler that saves writes the in-memory mapping over the file.
C18_LoadOfBadFileIsEmpty ==
    /\ disk.kind # "json" => (data = EmptyDict /\ running)
    /\ [][/\ (disk.kind # "json" /\ last'.kind = "reload") =>
                 (data' = EmptyDict /\ ~last'.raised /\ running')
          /\ (disk.kind = "partial" /\ last'.kind \in {"message", "start", "callback"}) =>
                 (disk' = [kind |-> "json", doc |-> data'] /\ data' # EmptyDict)]_vars

\* C18 witness: a reload read the unparseable file: the mapping is empty, the
\* process runs, the file is still as it was
C18_ReloadedUnparseableFile ==
    /\ last.kind = "reload"
    /\ ~last.raised
    /\ running
    /\ disk.kind = "partial"
    /\ data = EmptyDict

\* the rule C19 states for a phone text: it starts with "+" or with a digit
StartsWithPlusOrDigit(text) == text # <<>> /\ (text[1] = "+" \/ IsDigit(text[1]))

\* C19: at get_phone a text (the quick-button texts aside) is accepted
\* exactly when it starts with "+" or with a digit, whatever its length: such
\* a text is stored as phone and the step becomes get_age, every other text
\* is re-prompted.
C19_PhoneAcceptedByFirstCharacter ==
    [][\A n \in UserIds :
          (Uid(n) \in DOMAIN data /\ data[Uid(n)].step = "get_phone") =>
              \A raw \in Vocabulary(n, data) \ GlobalButtons :
                  Message(n, raw) =>
                      IF StartsWithPlusOrDigit(Strip(raw))
                      THEN /\ data'[Uid(n)].step = "get_age"
                           /\ Has(data'[Uid(n)], "phone")
                           /\ data'[Uid(n)].phone = Strip(raw)
                      ELSE /\ out' = <<Msg("reprompt_phone")>>
                           /\ data'[Uid(n)] = data[Uid(n)]]_vars

\* the fields the registration flow records, in the order of the flow
RegistrationFields == <<"name", "phone", "age", "email", "country">>

\* C20: a user's step is menu (the main control panel) only after name,
\* phone, age, email and country have all been recorded.
C20_MenuOnlyAfterRegistration ==
    \A uid \in DOMAIN data :
        data[uid].step = "menu" =>
            \A k \in 1..Len(RegistrationFields) : Has(data[uid], RegistrationFields[k])

-----------------------------------------------------------------------------
(* The ConversationHandler program (src/medibot_final_complete.py): sqlite  *)
(* table users, context.user_data, one ConversationHandler                  *)

\* PHONE, NAME, COUNTRY, CITY, AGE, PLAN, ... = range(8)
PHONE == 0

NAME == 1

COUNTRY == 2

CITY == 3

AGE == 4

PLAN == 5

\* ConversationHandler.END
END == -1

\* "⬅️ العودة للخطوة السابقة"  (the arrow is two code points: U+2B05, U+FE0F)
Btn_PrevStep ==
    <<"emoji", "vs16", " ", "alef", "lam", "ain", "waw", "dal", "ta_marbuta", " ",
      "lam", "lam", "kha", "tah", "waw", "ta_marbuta", " ",
      "alef", "lam", "sin", "alef", "ba", "qaf", "ta_marbuta">>

\* "شخصي"
Plan_Personal == <<"shin", "kha", "sad", "ya">>

\* "عائلي"
Plan_Family == <<"ain", "alef", "ya_hamza", "lam", "ya">>

\* str.lower() of one code point
LowerChar(c) ==
    CASE c = "A" -> "a" [] c = "B" -> "b" [] c = "N" -> "n" [] OTHER -> c

\* str.lower()
Lower(t) == [i \in 1..Len(t) |-> LowerChar(t[i])]

\* country_code_map, in insertion order
CountryCodeMap ==
    <<[code |-> <<"+", "2", "0">>, country |-> "EG"],
      [code |-> <<"+", "9", "6", "6">>, country |-> "SA"],
      [code |-> <<"+", "9", "7", "1">>, country |-> "AE"],
      [code |-> <<"+", "9", "7", "4">>, country |-> "QA"],
      [code |-> <<"+", "9", "6", "5">>, country |-> "KW"]>>

\* the loop over country_code_map: the first code the text starts with
DetectCountry(text) ==
    IF \E i \in 1..Len(CountryCodeMap) : StartsWith(text, CountryCodeMap[i].code)
    THEN CountryCodeMap[CHOOSE i \in 1..Len(CountryCodeMap) :
                            /\ StartsWith(text, CountryCodeMap[i].code)
                            /\ \A k \in 1..(i - 1) : ~StartsWith(text, CountryCodeMap[k].code)].country
    ELSE "INTL"

\* PAY_LINKS.get(detected_country, PAY_LINKS['INTL']): the key of the links
PayLinksOf(country) == IF country \in {"EG", "SA", "INTL"} THEN country ELSE "INTL"

\* a row of users after INSERT (tg_id): the columns with a default; a NULL
\* column is a column the row does not hold
NewRow == [plan_type |-> Plan_Personal, paid |-> 0]

\* INSERT OR IGNORE INTO users (tg_id) VALUES (?)
SqlInsertOrIgnore(us, tg_id) == IF tg_id \in DOMAIN us THEN us ELSE Put(us, tg_id, NewRow)

\* UPDATE users SET col=? WHERE tg_id=?
SqlUpdate(us, tg_id, col, v) ==
    IF tg_id \in DOMAIN us THEN [us EXCEPT ![tg_id] = Put(@, col, v)] ELSE us

\* what a callback of the ConversationHandler leaves: the table, the user's
\* user_data, the replies, and the returned state (<<>> = None)
ConvResult(us, ud, replies, ret) ==
    [users |-> us, ud |-> ud, out |-> replies, ret |-> ret, handled |-> TRUE]

\* no handler of the ConversationHandler takes the update
Unhandled(us, ud) == [users |-> us, ud |-> ud, out |-> <<>>, ret |-> <<>>, handled |-> FALSE]

\* start(update, context)
start(us, ud, tg_id) ==
    ConvResult(SqlInsertOrIgnore(us, tg_id), Put(ud, "step_stack", <<PHONE>>),
               <<Msg("welcome_ask_phone")>>, <<PHONE>>)

\* go_back(update, context)
go_back(us, ud) ==
    IF Has(ud, "step_stack") /\ Len(ud.step_stack) > 1
    THEN LET stack == SubSeq(ud.step_stack, 1, Len(ud.step_stack) - 1)
             previous_step == stack[Len(stack)]
             ud1 == Put(ud, "step_stack", stack)
         IN  CASE previous_step = PHONE -> ConvResult(us, ud1, <<Msg("back_to_phone")>>, <<PHONE>>)
               [] previous_step = NAME -> ConvResult(us, ud1, <<Msg("back_to_name")>>, <<NAME>>)
               [] previous_step = COUNTRY -> ConvResult(us, ud1, <<Msg("back_to_country")>>, <<COUNTRY>>)
               [] previous_step = CITY -> ConvResult(us, ud1, <<Msg("back_to_city")>>, <<CITY>>)
               [] previous_step = AGE -> ConvResult(us, ud1, <<Msg("back_to_age")>>, <<AGE>>)
               [] OTHER -> ConvResult(us, ud1, <<>>, <<>>)
    ELSE ConvResult(us, ud, <<Msg("cannot_go_back")>>, <<END>>)

\* phone(update, context)
phone(us, ud, tg_id, raw) ==
    LET text == Strip(raw)
        detected_country == DetectCountry(text)
        us1 == SqlUpdate(SqlUpdate(us, tg_id, "phone", text), tg_id, "country", detected_country)
        ud1 == Put(ud, "detected_country", detected_country)
    IN  IF Lower(text) = Btn_PrevStep THEN go_back(us, ud)
        ELSE ConvResult(us1, Put(ud1, "step_stack", Append(ud1.step_stack, NAME)),
                        <<Msg("ask_full_name")>>, <<NAME>>)

\* name(update, context)
name(us, ud, tg_id, raw) ==
    LET text == Strip(raw)
    IN  IF Lower(text) = Btn_PrevStep THEN go_back(us, ud)
        ELSE ConvResult(SqlUpdate(us, tg_id, "full_name", text),
                        Put(ud, "step_stack", Append(ud.step_stack, CITY)),
                        <<Msg("ask_city")>>, <<CITY>>)

\* city(update, context)
city(us, ud, tg_id, raw) ==
    LET text == Strip(raw)
    IN  IF Lower(text) = Btn_PrevStep THEN go_back(us, ud)
        ELSE ConvResult(SqlUpdate(us, tg_id, "city", text),
                        Put(ud, "step_stack", Append(ud.step_stack, AGE)),
                        <<Msg("ask_age")>>, <<AGE>>)

\* the value the INTEGER column age keeps for a bound text: the integer when
\* the text is an integer literal, the text itself otherwise
AgeColumn(text) == IF IsDigitStr(text) THEN [int |-> IntOf(text)] ELSE [text |-> text]

\* age(update, context)
age(us, ud, tg_id, raw) ==
    LET text == Strip(raw)
        detected_country == IF Has(ud, "detected_country") THEN ud.detected_country ELSE "INTL"
        ud1 == Put(ud, "pay_links", PayLinksOf(detected_country))
    IN  IF Lower(text) = Btn_PrevStep THEN go_back(us, ud)
        ELSE ConvResult(SqlUpdate(us, tg_id, "age", AgeColumn(text)),
                        Put(ud1, "step_stack", Append(ud1.step_stack, PLAN)),
                        <<Msg("choose_plan")>>, <<PLAN>>)

\* plan_callback(update, context): returns None
plan_callback(us, ud, tg_id, querydata) ==
    IF querydata = "plan_personal"
    THEN ConvResult(SqlUpdate(us, tg_id, "plan_type", Plan_Personal), ud,
                    <<Msg("personal_plan_pay_link")>>, <<>>)
    ELSE IF querydata = "plan_family"
    THEN ConvResult(SqlUpdate(us, tg_id, "plan_type", Plan_Family), ud,
                    <<Msg("family_plan_pay_link")>>, <<>>)
    ELSE ConvResult(us, ud, <<>>, <<>>)

\* cancel(update, context)
cancel(us, ud) == ConvResult(us, ud, <<Msg("cancelled")>>, <<END>>)

\* conversations.get(key): <<>> = None
ConvState(tg_id) == IF tg_id \in DOMAIN conversations THEN <<conversations[tg_id]>> ELSE <<>>

\* conv_handler on a command: the entry points are tried only while the user
\* has no conversation (allow_reentry is not set); inside a conversation the
\* handlers of the state (text that is no command, callback queries) do not
\* take a command, and the only fallback is /cancel
OnCommand(us, ud, tg_id, state, command) ==
    IF state = <<>>
    THEN (IF command = "start" THEN start(us, ud, tg_id) ELSE Unhandled(us, ud))
    ELSE (IF command = "cancel" THEN cancel(us, ud) ELSE Unhandled(us, ud))

\* conv_handler on a text that is no command
OnText(us, ud, tg_id, state, raw) ==
    CASE state = <<PHONE>> -> phone(us, ud, tg_id, raw)
      [] state = <<NAME>> -> name(us, ud, tg_id, raw)
      [] state = <<CITY>> -> city(us, ud, tg_id, raw)
      [] state = <<AGE>> -> age(us, ud, tg_id, raw)
      [] OTHER -> Unhandled(us, ud)

\* conv_handler on a callback query
OnCallback(us, ud, tg_id, state, querydata) ==
    IF state = <<PLAN>> THEN plan_callback(us, ud, tg_id, querydata) ELSE Unhandled(us, ud)

\* the users of the ConversationHandler program
ConvUsers == {1, 2}

ConvPhoneTexts ==
    {<<"+", "2", "0", "1">>, <<"+", "9", "6", "6", "5">>, <<"+", "9", "7", "1", "5">>, <<"+", "1", "2">>,
     <<"0", "1", "2">>}

ConvAgeTexts == {<<"3", "0">>, <<"x">>}

\* what user 1 sends in each state of the conversation
ConvStateVocabulary(state) ==
    CASE state = <<PHONE>> -> ConvPhoneTexts \cup {Btn_PrevStep}
      [] state = <<NAME>> -> {T_N, Btn_PrevStep}
      [] state = <<CITY>> -> {T_A, Btn_PrevStep}
      [] state = <<AGE>> -> ConvAgeTexts \cup {Btn_PrevStep}
      [] OTHER -> {T_N, Btn_PrevStep}

\* user 2 only answers the phone and the name question
ConvVocabulary(n, state) ==
    IF n = 1 THEN ConvStateVocabulary(state)
    ELSE IF state = <<PHONE>> THEN {<<"+", "9", "7", "1", "5">>}
    ELSE IF state = <<NAME>> THEN {Btn_PrevStep}
    ELSE {}

ConvCommands == {"start", "cancel"}

ConvQueryData == {"plan_personal", "plan_family"}

\* a row left by an earlier run of the program
OldRow ==
    [plan_type |-> Plan_Family, paid |-> 0, phone |-> <<"+", "2", "0", "1">>, country |-> "EG",
     full_name |-> T_N, city |-> T_A, age |-> [int |-> 30]]

\* process start: the table is the database file, there is no conversation
ConvInit ==
    /\ users \in {EmptyDict, (1 :> OldRow)}
    /\ user_data = [n \in ConvUsers |-> EmptyDict]
    /\ conversations = EmptyDict
    /\ data = EmptyDict
    /\ disk = [kind |-> "missing"]
    /\ jobs = {}
    /\ clock = ClockStart
    /\ running = TRUE
    /\ restarts = 0
    /\ last = [kind |-> "init", uid |-> <<>>, raised |-> FALSE]
    /\ out = <<>>
    /\ lock = 0
    /\ threads = [t \in Threads |-> IdleThread]

\* the dispatcher ran conv_handler on an update of user n with result r:
\* a returned END drops the conversation, another returned state is set,
\* None leaves the state
ConvHandled(n, kind, r) ==
    /\ users' = r.users
    /\ user_data' = [user_data EXCEPT ![n] = r.ud]
    /\ conversations' =
           IF r.ret = <<>> THEN conversations
           ELSE IF r.ret = <<END>> THEN Pop(conversations, n)
           ELSE Put(conversations, n, r.ret[1])
    /\ out' = r.out
    /\ last' = [kind |-> kind, uid |-> Uid(n), raised |-> FALSE, handled |-> r.handled]
    /\ UNCHANGED <<data, disk, jobs, clock, running, restarts, lock, threads>>

\* a command message
ConvCommand(n, command) ==
    \E r \in {OnCommand(users, user_data[n], n, ConvState(n), command)} :
        ConvHandled(n, command, r)

\* a text message that is no command
ConvText(n, raw) ==
    /\ raw \in ConvVocabulary(n, ConvState(n))
    /\ \E r \in {OnText(users, user_data[n], n, ConvState(n), raw)} :
           ConvHandled(n, "text", r)

\* a press of an inline button
ConvCallback(n, querydata) ==
    \E r \in {OnCallback(users, user_data[n], n, ConvState(n), querydata)} :
        ConvHandled(n, "callback", r)

ConvNext ==
    \/ \E n \in ConvUsers, command \in ConvCommands : ConvCommand(n, command)
    \/ \E n \in ConvUsers : \E raw \in ConvVocabulary(n, ConvState(n)) : ConvText(n, raw)
    \/ \E n \in ConvUsers, querydata \in ConvQueryData : ConvCallback(n, querydata)

SpecConv == ConvInit /\ [][ConvNext]_vars

\* C13: /start issued at any point of the conversation (in PHONE, NAME, CITY,
\* AGE or PLAN) resets the conversation to PHONE with step_stack = [PHONE].
C13_StartResetsConversation ==
    [][\A n \in ConvUsers :
          ConvCommand(n, "start") =>
              /\ ConvState(n)' = <<PHONE>>
              /\ user_data'[n].step_stack = <<PHONE>>]_vars

\* the Gulf prefixes of country_code_map
GulfPrefixes == {<<"+", "9", "6", "6">>, <<"+", "9", "7", "1">>, <<"+", "9", "7", "4">>, <<"+", "9", "6", "5">>}

\* the payment links C21 states for a phone text: Egypt for "+20", Saudi and
\* Gulf for every Gulf prefix of the map, international otherwise
LinksForPhone(text) ==
    IF StartsWith(text, <<"+", "2", "0">>) THEN "EG"
    ELSE IF \E p \in GulfPrefixes : StartsWith(text, p) THEN "SA"
    ELSE "INTL"

\* C21: when the age handler shows the plans, the payment links it keeps for
\* the user are the ones of the phone prefix: Egypt for "+20", Saudi and Gulf
\* for "+966", "+971", "+974", "+965", international for any other prefix.
C21_LinksFollowPhonePrefix ==
    [][\A n \in ConvUsers :
          (/\ last'.kind = "text"
           /\ last'.uid = Uid(n)
           /\ ConvState(n) = <<AGE>>
           /\ ConvState(n)' = <<PLAN>>)
          => user_data'[n].pay_links = LinksForPhone(users[n].phone)]_vars

-----------------------------------------------------------------------------
(* The add-medicine flow from the count of times to the committed medicine  *)

\* user uid collects times: the scratch list holds the times entered so
\* far, fewer than the chosen number
CollectingTimes(d, uid) ==
    d[uid].step \in {"med_time_input", "med_time_period"} =>
        /\ Has(d[uid], "temp")
        /\ d[uid].temp.times_needed \in 1..4
        /\ Len(d[uid].temp.times) = d[uid].temp.times_collected
        /\ d[uid].temp.times_collected < d[uid].temp.times_needed

\* the med_times_count step took the text: the flow goes on to the first time
CountAccepted(n) == data[Uid(n)].step = "med_times_count" /\ data'[Uid(n)].step = "med_time_input"

\* the add flow of user n committed its medicine in this step
Committed(n) == out' = <<Msg("medicine_added")>> /\ last'.uid = Uid(n)

\* the medicine is appended to the end of the list with the chosen number of
\* times, the times entered before in their order, the step is menu and every
\* time of the medicine has its own live job at its hour and minute
CommittedAsChosen(n) ==
    LET u == data[Uid(n)]
        meds == data'[Uid(n)].medicines
        med == meds[Len(meds)]
    IN  /\ data'[Uid(n)].step = "menu"
        /\ Len(meds) = Len(u.medicines) + 1
        /\ SubSeq(meds, 1, Len(u.medicines)) = u.medicines
        /\ med.name = u.temp.name
        /\ med.dose = u.temp.dose
        /\ Len(med.times) = u.temp.times_needed
        /\ SubSeq(med.times, 1, Len(u.temp.times)) = u.temp.times
        /\ jobs \subseteq jobs'
        /\ Cardinality({j \in jobs' : j.user = n /\ j.med_id = med.id}) = Len(med.times)
        /\ \A k \in 1..Len(med.times) :
               \E j \in jobs' :
                   /\ j.id = JobId(Uid(n), med.id, med.times[k], k - 1)
                   /\ j.user = n
                   /\ j.med_id = med.id
                   /\ PaddedHHMM(j.hour, j.minute) = med.times[k]

\* C22: the med_times_count step accepts only the texts "1", "2", "3", "4"
\* and keeps the number; while times are collected the scratch list holds the
\* times entered so far; the medicine committed at the end of the add flow
\* holds exactly the chosen number of times in the order entered, is appended
\* to the end of the user's list, the step is menu and one job per time is
\* live.
C22_CommittedAsChosen ==
    /\ \A uid \in DOMAIN data : CollectingTimes(data, uid)
    /\ [][/\ \A uid \in DOMAIN data' : CollectingTimes(data', uid)
          /\ \A n \in UserIds :
                 (last'.kind = "message" /\ last'.uid = Uid(n) /\ Uid(n) \in DOMAIN data) =>
                     /\ CountAccepted(n) =>
                            \E c \in 1..4 :
                                /\ \E raw \in Vocabulary(n, data) : Strip(raw) = Str(c)
                                /\ Message(n, Str(c))
                                /\ data'[Uid(n)].temp.times_needed = c
                                /\ data'[Uid(n)].temp.times = <<>>
                     /\ Committed(n) => CommittedAsChosen(n)]_vars

\* C22 witness: a medicine with two times, the evening time entered before the
\* morning time, was committed next to the medicines the user had, with its
\* two jobs
C22_CommittedTwoTimes ==
    /\ last.kind = "message"
    /\ out = <<Msg("medicine_added")>>
    /\ data[last.uid].step = "menu"
    /\ Len(data[last.uid].medicines) >= 2
    /\ LET meds == data[last.uid].medicines
           med == meds[Len(meds)]
       IN  /\ med.times = <<<<"2", "0", ":", "0", "5">>, <<"0", "8", ":", "0", "5">>>>
           /\ Cardinality({j \in jobs : j.med_id = med.id}) = 2

-----------------------------------------------------------------------------
(* Reminders after an edit of the name or the dose                         *)

\* user n is at edit_name or edit_dose with a medicine to edit
EditingNameOrDose(n) ==
    /\ Uid(n) \in DOMAIN data
    /\ data[Uid(n)].step \in {"edit_name", "edit_dose"}
    /\ EditedMed(data[Uid(n)]) # 0

\* the edit of this step put the text into the medicine
EditStored(n) == out' \in {<<Msg("name_edited")>>, <<Msg("dose_edited")>>}

\* every call to the transport carries the name and the dose the store holds
\* for the medicine of job j
SendsStored(calls, j) ==
    LET meds == data[Str(j.user)].medicines
        med == meds[FindById(meds, j.med_id)]
    IN  /\ calls # <<>>
        /\ \A k \in 1..Len(calls) : calls[k].name = med.name /\ calls[k].dose = med.dose

\* C23: a firing sends the name and the dose the store holds at that moment
\* for the medicine of the job, and a message at edit_name / edit_dose leaves
\* the id and the time list of every medicine of the user and the set of live
\* jobs as they were, the edit changing only the name or the dose of the
\* edited medicine.
C23_ReminderReadsCurrentMedicine ==
    [][/\ last'.kind = "fire" =>
              \A j \in {x \in jobs : Str(x.user) = last'.uid} :
                  (JobHasMedicine(j) /\ \E voice \in BOOLEAN : Fire(j, voice, last'.transport))
                      => SendsStored(out', j)
       /\ \A n \in UserIds :
              (last'.kind = "message" /\ last'.uid = Uid(n) /\ EditingNameOrDose(n)) =>
                  LET old == data[Uid(n)].medicines
                      new == data'[Uid(n)].medicines
                      i == EditedMed(data[Uid(n)])
                  IN  /\ jobs' = jobs
                      /\ Len(new) = Len(old)
                      /\ \A k \in 1..Len(old) :
                             /\ new[k].id = old[k].id
                             /\ new[k].times = old[k].times
                             /\ (k # i \/ ~EditStored(n)) => new[k] = old[k]
                      /\ EditStored(n) =>
                             \/ data[Uid(n)].step = "edit_name" /\ new[i].dose = old[i].dose
                                    /\ \E raw \in Vocabulary(n, data) : new[i].name = Strip(raw)
                             \/ data[Uid(n)].step = "edit_dose" /\ new[i].name = old[i].name
                                    /\ \E raw \in Vocabulary(n, data) : new[i].dose = Strip(raw)]_vars

\* C23 witness: a job scheduled before the edit fired and sent the name that
\* only edit_name can have stored
C23_FiredWithEditedName ==
    /\ last.kind = "fire"
    /\ out # <<>>
    /\ out[1].text = "reminder"
    /\ out[1].name = T_B
    /\ \E j \in jobs : Str(j.user) = last.uid /\ JobHasMedicine(j)

-----------------------------------------------------------------------------
(* The paid flag                                                           *)

\* the record of uid exists and is marked as paid
Paid(d, uid) == uid \in DOMAIN d /\ d[uid].paid

\* this step is the paid_confirm callback of user n
PaidByCallback(n) == last'.kind = "callback" /\ Callback(n, "paid_confirm")

\* this step is one of the confirmation texts, sent by user n at awaiting_payment
PaidByText(n) ==
    /\ last'.kind = "message"
    /\ data[Uid(n)].step = "awaiting_payment"
    /\ \E raw \in Vocabulary(n, data) : Strip(raw) \in PaidTexts /\ Message(n, raw)

\* C24: the paid flag of a user becomes true only in the paid_confirm callback
\* of that user or in a confirmation text that user sends at awaiting_payment,
\* and no step sets it back to false.
C24_PaidOnlyBySelfReport ==
    [][\A n \in UserIds :
          /\ Paid(data, Uid(n)) => Paid(data', Uid(n))
          /\ (~Paid(data, Uid(n)) /\ Paid(data', Uid(n))) =>
                 /\ last'.uid = Uid(n)
                 /\ PaidByCallback(n) \/ PaidByText(n)]_vars

\* C24 witness: the text of a user at awaiting_payment marked the record as paid
C24_PaidByText ==
    /\ last.kind = "message"
    /\ out = <<Msg("payment_marked_main_panel")>>
    /\ Paid(data, last.uid)
    /\ data[last.uid].step = "menu"

-----------------------------------------------------------------------------
(* Firings between the statements of the handler threads                   *)

\* this step is a firing of a live job
Firing == \E j \in jobs, voice \in BOOLEAN, transport \in TransportOutcomes : ThreadFire(j, voice, transport)

\* C25: a firing of send_reminder, at any point between the statements of
\* the handlers, leaves every user record with its medicines, the document
\* on disk and the set of live jobs as they were.
C25_DispatcherOnlyReads ==
    [][Firing => (data' = data /\ disk' = disk /\ jobs' = jobs)]_vars

\* C25 witness: a reminder was sent while a save_data of a handler had
\* opened the file and not yet written it
C25_FiredDuringSave ==
    /\ last.kind = "fire"
    /\ last.midsave
    /\ out # <<>>
    /\ disk.kind = "partial"
    /\ \E t \in Threads : threads[t].pc = "dump"

-----------------------------------------------------------------------------
(* The step stack of the ConversationHandler program                       *)

\* the conversation of user n, when there is one, is in the state on top of
\* the step stack
StackTopIsState(n) ==
    ConvState(n) # <<>> =>
        /\ Has(user_data[n], "step_stack")
        /\ user_data[n].step_stack # <<>>
        /\ ConvState(n) = <<user_data[n].step_stack[Len(user_data[n].step_stack)]>>

\* user n, in a conversation, sends the text of the back button
BackPressed(n) ==
    /\ last'.kind = "text"
    /\ last'.uid = Uid(n)
    /\ ConvState(n) # <<>>
    /\ ConvText(n, Btn_PrevStep)

\* the question go_back asks again for a step
QuestionOf(step) ==
    CASE step = PHONE -> "back_to_phone"
      [] step = NAME -> "back_to_name"
      [] step = COUNTRY -> "back_to_country"
      [] step = CITY -> "back_to_city"
      [] step = AGE -> "back_to_age"
      [] OTHER -> "none"

\* the conversation moved to the step below the top of the stack, which is
\* asked again; from a stack of one step the conversation ended
BackMoved(n) ==
    LET stack == user_data[n].step_stack
    IN  IF Len(stack) > 1
        THEN /\ ConvState(n)' = <<stack[Len(stack) - 1]>>
             /\ user_data'[n].step_stack = SubSeq(stack, 1, Len(stack) - 1)
             /\ out' = <<Msg(QuestionOf(stack[Len(stack) - 1]))>>
        ELSE /\ ConvState(n)' = <<>>
             /\ out' = <<Msg("cannot_go_back")>>

\* C26: in every state of an active conversation the last element of
\* step_stack is the conversation state; the back button moves the
\* conversation to the step before it on the stack and asks that step again;
\* pressed at the first step (a stack of one element) it ends the
\* conversation.
C26_BackFollowsStack ==
    /\ \A n \in ConvUsers : StackTopIsState(n)
    /\ [][\A n \in ConvUsers :
              /\ StackTopIsState(n)'
              /\ BackPressed(n) => BackMoved(n)]_vars

====
